---- MODULE Spec2Model ----
(***************************************************************************)
(* A model of musikPlayerPy: the playlist traversal of                     *)
(* playlist_manager.py, the queued-command player of player.py (the one    *)
(* main.py imports), the player of music_player.py, and of main.py the     *)
(* background-task runner, the downloads and the main loop.  Each part     *)
(* has its own specification over the shared variables; a part's actions   *)
(* leave the other parts' variables alone.                                 *)
(***************************************************************************)
EXTENDS Integers, Sequences, FiniteSets, TLC

(* ---------------------------------------------------------------------- *)
(* Bounds of the model                                                     *)
(* ---------------------------------------------------------------------- *)

\* longest playlist explored
MaxSongs == 3

\* the songs a playlist may hold, named by their url (the traversal never
\* reads a song, so one url is enough to build playlists of every length)
Urls == {"u1"}

VARIABLES
    \* playlist_manager.py: PlaylistManager
    songs,            \* self.songs, a sequence of urls
    shuffle_mode,     \* self.shuffle_mode
    shuffle_history,  \* self.shuffle_history, a sequence of 0-based indices
    shuffle_index,    \* self.shuffle_index
    calls,            \* the last calls of the traversal API and what they returned
    \* player.py: MusicPlayer (the queued-command player main.py imports)
    process,          \* self.process: "none", "alive" or "exited"
    is_running,       \* self.is_running
    is_paused,        \* self.is_paused
    volume,           \* self.volume
    playback_stats,   \* self.playback_stats: its volume and the keys the
                      \* followed callbacks write
    ipc_socket,       \* self.ipc_socket: "none" or "open"
    auto_next_callback, \* self.auto_next_callback is set
    request_id,       \* self.request_id
    command_queue,    \* self.command_queue
    event_handlers,   \* self.event_handlers: request_id -> callback
    wire,             \* commands written to the socket that mpv has not answered
    inbox,            \* lines mpv has written that the monitor thread has not read
    mon_pc,           \* where the monitor thread is in its loop: "recv" or "update"
    dispatched,       \* the last line _handle_mpv_response handled: what it was,
                      \* the callbacks it invoked, the auto-next calls it made
    \* main.py, TerminalMusicPlayerApp
    threads,          \* the threads _run_in_background has started
    event_queue,      \* self.event_queue
    cache_writers,    \* the threads that have written self.downloaded_songs
    \* main.py, TerminalMusicPlayerApp._download_song and the downloads directory
    files,            \* the names of the files in downloads/
    fetched,          \* the urls yt-dlp has downloaded successfully
    last_download,    \* the last _download_song call and what it did
    \* music_player.py: MusicPlayer (the player that sends each command itself)
    mp_process,       \* self.process: "none", "alive" or "exited"
    mp_is_running,    \* self.is_running
    status,           \* self.status, the PlaybackStatus
    mp_auto_next_callback, \* self.auto_next_callback is set
    ipc_thread,       \* the listener thread: "none", "connect", "recv" or "ended"
    conn,             \* the listener's connection: "none", "open" or "closed"
    socket_file,      \* os.path.exists(self.socket_path)
    mp_inbox,         \* lines mpv has written that the listener has not read
    caller,           \* the thread calling the player: idle, or waiting in _send_command
    handled,          \* the last event _handle_event handled and the auto-next calls made
    \* main.py, TerminalMusicPlayerApp.run and the commands it handles
    app_is_running,   \* self.is_running of the application
    loop_pc,          \* where run() is: "events", "command", "ui" or "ended"
    auto_download,    \* self.player.auto_download
    downloaded_songs, \* the urls that are keys of self.downloaded_songs
    ui_messages,      \* self.ui.messages
    last_play,        \* the last call of _play_now: the source played, play()'s result
    pending_play,     \* _play_song has left the play to the download's handler
    \* music_player.py: a listener thread started by an earlier play()
    old_thread,       \* "none", "sleep" (waiting to connect), "recv" or "ended"
    old_inbox,        \* lines mpv has written to its connection, not yet read
    dispatched_by,    \* the listeners that have handled the last event mpv wrote
    \* player.py: the threads inside _send_command
    senders,          \* per thread: where it is, the id it put in its command,
                      \* the counter value it loaded for the increment
    \* what stop() made reach the mpv process it stopped, in order
    received,         \* player.py
    mp_received,      \* music_player.py
    \* music_player.py: the reconnection of _ipc_listen_thread
    reconnect_delay,  \* its local reconnect_delay, in units of 1/1280 s
    reconnect,        \* why the thread is about to connect ("start", "closed":
                      \* its connection ended, "failed": its last attempt
                      \* raised) and the time it has slept since then
    \* the receive loops of both players and the bytes they read
    written,          \* the messages mpv has written, in order
    unread,           \* player.py: the bytes on its socket not yet read
    buffer,           \* player.py: the local buffer (a str) of _monitor_playback
    forwarded,        \* player.py: the lines passed to _handle_mpv_response
    mp_unread,        \* music_player.py: the bytes on its connection not yet read
    mp_buffer,        \* music_player.py: the local buffer (bytes) of the listener
    mp_forwarded,     \* music_player.py: the lines passed to _handle_event
    \* main.py: the advance to the next song
    app_current_index, \* self.current_index of the application
    callback_index,   \* the index on_song_complete of the last _play_now holds
    advance,          \* the last playback-ended event handled: the index before
                      \* and after, the indexes play() was called for, whether
                      \* the player was stopped when it was taken off the queue
    \* music_player.py: the line _handle_event was last given
    seen,
    \* main.py: what kind of value self.current_index holds, "int" or "tuple"
    \* (for a tuple app_current_index is its first component)
    index_kind,
    \* player.py: the command _command_handler has written and whose callback
    \* it has yet to store (a sequence of at most one)
    storing,
    \* the callbacks of the commands written, by request id
    sent_with,
    \* the request ids whose responses _handle_mpv_response has processed
    answered

pmVars == <<songs, shuffle_mode, shuffle_history, shuffle_index, calls>>

qpVars == <<process, is_running, is_paused, volume, playback_stats, ipc_socket,
            auto_next_callback, request_id, command_queue, event_handlers,
            wire, inbox, mon_pc, dispatched>>

bgVars == <<threads, event_queue, cache_writers>>

dlVars == <<files, fetched, last_download>>

mpVars == <<mp_process, mp_is_running, status, mp_auto_next_callback, ipc_thread,
            conn, socket_file, mp_inbox, caller, handled>>

appVars == <<app_is_running, loop_pc, auto_download, downloaded_songs, ui_messages,
             last_play, pending_play>>

olVars == <<old_thread, old_inbox, dispatched_by>>

saVars == <<senders>>

stVars == <<received, mp_received>>

bkVars == <<reconnect_delay, reconnect>>

rxVars == <<written, unread, buffer, forwarded, mp_unread, mp_buffer, mp_forwarded>>

advVars == <<app_current_index, callback_index, advance>>

heVars == <<seen>>
ixVars == <<index_kind>>
rgVars == <<storing, sent_with, answered>>

vars == <<pmVars, qpVars, bgVars, dlVars, mpVars, appVars, olVars, saVars, stVars,
          bkVars, rxVars, advVars, heVars, ixVars, rgVars>>

\* the variables of the other parts
exceptPm == <<qpVars, bgVars, dlVars, mpVars, appVars, olVars, saVars, stVars, bkVars, rxVars,
    advVars, heVars, ixVars, rgVars>>
exceptQp == <<pmVars, bgVars, dlVars, mpVars, appVars, olVars, saVars, stVars, bkVars, rxVars,
    advVars, heVars, ixVars, rgVars>>
exceptBg == <<pmVars, qpVars, dlVars, mpVars, appVars, olVars, saVars, stVars, bkVars, rxVars,
    advVars, heVars, ixVars, rgVars>>
exceptDl == <<pmVars, qpVars, bgVars, mpVars, appVars, olVars, saVars, stVars, bkVars, rxVars,
    advVars, heVars, ixVars, rgVars>>
exceptMp == <<pmVars, qpVars, bgVars, dlVars, appVars, olVars, saVars, stVars, bkVars, rxVars,
    advVars, heVars, ixVars, rgVars>>
\* the variables the main loop and its commands leave alone
exceptApp == <<pmVars, dlVars, mpVars, olVars, saVars, stVars, bkVars, rxVars,
    advVars, heVars, ixVars, rgVars>>
\* the variables the listeners of music_player.py leave alone
exceptOl == <<pmVars, qpVars, bgVars, dlVars, appVars, saVars, stVars, bkVars, rxVars,
    advVars, heVars, ixVars, rgVars>>
\* the variables the senders of player.py leave alone
exceptSa == <<pmVars, bgVars, dlVars, mpVars, appVars, olVars, stVars, bkVars, rxVars,
    advVars, heVars, ixVars, rgVars>>

(* ---------------------------------------------------------------------- *)
(* playlist_manager.py                                                     *)
(* ---------------------------------------------------------------------- *)

\* Python's a % b for b > 0 (the result is never negative)
PyMod(a, b) == a % b

\* all sequences over S of length at most n
SeqsUpTo(S, n) == UNION {[1..k -> S] : k \in 0..n}

\* a shuffle that may repeat an index (random.choices instead of random.shuffle)
ShuffledRangeDup(n) == [1..n -> 0..(n - 1)]

\* list(range(n)) followed by random.shuffle: any permutation of 0..n-1
ShuffledRange(n) ==
    {p \in [1..n -> 0..(n - 1)] : \A i, j \in 1..n : p[i] = p[j] => i = j}

\* the record of one traversal call: the operation, its argument, what it returned
\* (raised names the exception it ended with, "" when it returned) and the
\* shuffle cursor it found
Call(op, arg, ret, raised) ==
    [op |-> op, arg |-> arg, ret |-> ret, raised |-> raised, cursor |-> shuffle_index]

\* the log keeps the last two traversal calls made with no other call between
Logged(c) == IF Len(calls) = 0 THEN <<c>> ELSE <<calls[Len(calls)], c>>

\* PlaylistManager.__init__: the playlist is whatever load_playlist returns
\* (the file's list, or the default list), shuffle is off
PMInit ==
    /\ songs \in SeqsUpTo(Urls, MaxSongs)
    /\ shuffle_mode = FALSE
    /\ shuffle_history = <<>>
    /\ shuffle_index = 0
    /\ calls = <<>>

\* a toggle_shuffle that leaves the cursor where it was when it turns shuffle on
ToggleShuffleKeepsCursor ==
    /\ shuffle_mode' = ~shuffle_mode
    /\ IF ~shuffle_mode
         THEN /\ shuffle_history' \in ShuffledRange(Len(songs))
              /\ UNCHANGED shuffle_index
         ELSE UNCHANGED <<shuffle_history, shuffle_index>>
    /\ calls' = <<>>
    /\ UNCHANGED songs

\* toggle_shuffle()
toggle_shuffle ==
    /\ shuffle_mode' = ~shuffle_mode
    /\ IF ~shuffle_mode
         THEN /\ shuffle_history' \in ShuffledRange(Len(songs))
              /\ shuffle_index' = 0
         ELSE UNCHANGED <<shuffle_history, shuffle_index>>
    /\ calls' = <<>>
    /\ UNCHANGED songs

\* get_next_song_index that forgets to wrap in sequential mode
NextResultNoWrap(current_index) ==
    IF Len(songs) = 0
      THEN [ret |-> 0, raised |-> "", index |-> shuffle_index]
      ELSE IF shuffle_mode
        THEN IF Len(shuffle_history) = 0
               THEN [ret |-> 0, raised |-> "ZeroDivisionError", index |-> shuffle_index]
               ELSE LET i == (shuffle_index + 1) % Len(shuffle_history)
                    IN  [ret |-> shuffle_history[i + 1], raised |-> "", index |-> i]
        ELSE [ret |-> current_index + 1, raised |-> "", index |-> shuffle_index]

\* get_next_song_index without its test for an empty playlist
NextResultUnguarded(current_index) ==
    IF shuffle_mode
      THEN IF Len(shuffle_history) = 0
             THEN [ret |-> 0, raised |-> "ZeroDivisionError", index |-> shuffle_index]
             ELSE LET i == PyMod(shuffle_index + 1, Len(shuffle_history))
                  IN  [ret |-> shuffle_history[i + 1], raised |-> "", index |-> i]
      ELSE IF Len(songs) = 0
             THEN [ret |-> 0, raised |-> "ZeroDivisionError", index |-> shuffle_index]
             ELSE [ret |-> PyMod(current_index + 1, Len(songs)), raised |-> "",
                   index |-> shuffle_index]

\* get_next_song_index(current_index): what it returns and the cursor it leaves.
\* With shuffle on and an empty shuffle_history the modulo raises
\* ZeroDivisionError before shuffle_index is assigned.
NextResult(current_index) ==
    IF Len(songs) = 0
      THEN [ret |-> 0, raised |-> "", index |-> shuffle_index]
      ELSE IF shuffle_mode
        THEN IF Len(shuffle_history) = 0
               THEN [ret |-> 0, raised |-> "ZeroDivisionError", index |-> shuffle_index]
               ELSE LET i == PyMod(shuffle_index + 1, Len(shuffle_history))
                    IN  [ret |-> shuffle_history[i + 1], raised |-> "", index |-> i]
        ELSE [ret |-> PyMod(current_index + 1, Len(songs)), raised |-> "",
              index |-> shuffle_index]

\* get_prev_song_index that reads the entry but does not move the cursor back
PrevResultNoRetreat(current_index) ==
    IF Len(songs) = 0
      THEN [ret |-> 0, raised |-> "", index |-> shuffle_index]
      ELSE IF shuffle_mode
        THEN IF Len(shuffle_history) = 0
               THEN [ret |-> 0, raised |-> "ZeroDivisionError", index |-> shuffle_index]
               ELSE [ret |-> shuffle_history[shuffle_index + 1], raised |-> "",
                     index |-> shuffle_index]
        ELSE [ret |-> PyMod(current_index - 1, Len(songs)), raised |-> "",
              index |-> shuffle_index]

\* get_prev_song_index(current_index)
PrevResult(current_index) ==
    IF Len(songs) = 0
      THEN [ret |-> 0, raised |-> "", index |-> shuffle_index]
      ELSE IF shuffle_mode
        THEN IF Len(shuffle_history) = 0
               THEN [ret |-> 0, raised |-> "ZeroDivisionError", index |-> shuffle_index]
               ELSE LET i == PyMod(shuffle_index - 1, Len(shuffle_history))
                    IN  [ret |-> shuffle_history[i + 1], raised |-> "", index |-> i]
        ELSE [ret |-> PyMod(current_index - 1, Len(songs)), raised |-> "",
              index |-> shuffle_index]

get_next_song_index(current_index) ==
    LET r == NextResult(current_index)
    IN  /\ shuffle_index' = r.index
        /\ calls' = Logged(Call("next", current_index, r.ret, r.raised))
        /\ UNCHANGED <<songs, shuffle_mode, shuffle_history>>

get_prev_song_index(current_index) ==
    LET r == PrevResult(current_index)
    IN  /\ shuffle_index' = r.index
        /\ calls' = Logged(Call("prev", current_index, r.ret, r.raised))
        /\ UNCHANGED <<songs, shuffle_mode, shuffle_history>>

\* add_song(title, artist, url, duration): rejected input changes nothing,
\* accepted input is appended (the shuffle fields are not touched)
add_song(url, valid) ==
    /\ Len(songs) < MaxSongs
    /\ songs' = IF valid THEN Append(songs, url) ELSE songs
    /\ calls' = <<>>
    /\ UNCHANGED <<shuffle_mode, shuffle_history, shuffle_index>>

\* songs.pop(index) for a 0-based index
Pop(s, index) == [k \in 1..(Len(s) - 1) |-> IF k <= index THEN s[k] ELSE s[k + 1]]

\* delete_song(index): an index outside the list changes nothing
delete_song(index) ==
    /\ songs' = IF 0 <= index /\ index < Len(songs) THEN Pop(songs, index) ELSE songs
    /\ calls' = <<>>
    /\ UNCHANGED <<shuffle_mode, shuffle_history, shuffle_index>>

\* the indices a caller passes as the current one
CurrentIndices == IF Len(songs) = 0 THEN {0} ELSE 0..(Len(songs) - 1)

\* traversal of a playlist that is not edited
TraverseNext ==
    \/ toggle_shuffle /\ UNCHANGED exceptPm
    \/ (\E c \in CurrentIndices : get_next_song_index(c)) /\ UNCHANGED exceptPm
    \/ (\E c \in CurrentIndices : get_prev_song_index(c)) /\ UNCHANGED exceptPm

\* traversal and editing
PlaylistNext ==
    \/ TraverseNext
    \/ (\E u \in Urls, valid \in BOOLEAN : add_song(u, valid)) /\ UNCHANGED exceptPm
    \/ (\E i \in -1..MaxSongs : delete_song(i)) /\ UNCHANGED exceptPm

(* ---------------------------------------------------------------------- *)
(* player.py                                                               *)
(* ---------------------------------------------------------------------- *)

\* request ids are allocated up to this one
MaxRequestId == 4

\* lines buffered on the socket between mpv and the monitor thread
MaxInbox == 1

\* how many of the observe commands of _subscribe_to_events are followed
MaxSubscribed == 1

\* how many of the callback commands of _update_playback_stats are followed
MaxStats == 1

\* Python's None, for a callback that was not given
None == "None"

\* the volume a fresh or stopped player shows
DefaultVolume == 100

\* the callbacks of _subscribe_to_events' commands: it passes none
SubscribeCallbacks == <<None, None, None, None, None, None>>

\* the callbacks of _update_playback_stats' commands; a callback is named by
\* the playback_stats key its _update_stat call writes.  "get time-pos", which
\* it sends first and without a callback, is answered like the commands of
\* _subscribe_to_events and is not followed a second time here.
StatCallbacks == <<"bitrate", "cache_used", "cache_size">>

\* the callbacks of the commands _subscribe_to_events queues, in order
SubscribeCommands == SubSeq(SubscribeCallbacks, 1, MaxSubscribed)

\* the callbacks of the commands _update_playback_stats queues, in order
StatsCommands == SubSeq(StatCallbacks, 1, MaxStats)

\* the playback_stats keys written by the callbacks followed
StatKeys == {StatCallbacks[k] : k \in 1..MaxStats}

\* values mpv reports for the volume (its range ends at volume-max, above 100)
VolumeReports == {55, 130}

\* one line of the protocol as _handle_mpv_response sees it
EventMsg(event, name, reason, has_data, data) ==
    [kind |-> "event", event |-> event, name |-> name, reason |-> reason,
     has_data |-> has_data, data |-> data, request_id |-> 0, error |-> ""]

ResponseMsg(id, error, has_data, data) ==
    [kind |-> "response", event |-> "", name |-> "", reason |-> "",
     has_data |-> has_data, data |-> data, request_id |-> id, error |-> error]

\* the events mpv may write
MpvEvents ==
    {EventMsg("property-change", "volume", "", TRUE, v) : v \in VolumeReports}
    \cup {EventMsg("property-change", "pause", "", TRUE, 1),
          EventMsg("end-file", "", "eof", FALSE, 0),
          EventMsg("end-file", "", "stop", FALSE, 0)}

\* the answers mpv may give to the command with request id `id`
MpvResponses(id) ==
    {ResponseMsg(id, "success", TRUE, 1), ResponseMsg(id, "success", FALSE, 0),
     ResponseMsg(id, "error", FALSE, 0)}

\* nothing dispatched yet
NoDispatch == [what |-> "none", invoked |-> <<>>, advanced |-> 0]

\* MusicPlayer.__init__
QPInit ==
    /\ process = "none"
    /\ is_running = FALSE
    /\ is_paused = FALSE
    /\ volume = DefaultVolume
    /\ playback_stats = [k \in StatKeys \cup {"volume"} |->
                            IF k = "volume" THEN DefaultVolume ELSE 0]
    /\ ipc_socket = "none"
    /\ auto_next_callback = FALSE
    /\ request_id = 1
    /\ command_queue = <<>>
    /\ event_handlers = <<>>
    /\ wire = <<>>
    /\ inbox = <<>>
    /\ mon_pc = "recv"
    /\ dispatched = NoDispatch

\* _send_command for each callback of cbs in turn, starting at request id
\* `id`: the queue after the calls (a command is followed as its request id
\* and its callback)
Enqueued(q, id, cbs) ==
    q \o [k \in 1..Len(cbs) |-> [request_id |-> id + k - 1, callback |-> cbs[k]]]

\* a stop() that leaves the socket object in place (a second call would find
\* it and write to it)
StopEffectsKeepingSocket ==
    /\ is_running' = FALSE
    /\ process' = (IF process = "alive" THEN "exited" ELSE process)
    /\ volume' = DefaultVolume
    /\ is_paused' = FALSE
    /\ UNCHANGED <<ipc_socket, wire, inbox>>

\* stop(): the flags, the socket, the process and the displayed state.
\* Its _send_command(quit) returns at once because is_running is already False.
StopEffects ==
    /\ is_running' = FALSE
    /\ ipc_socket' = "none"
    /\ process' = (IF process = "alive" THEN "exited" ELSE process)
    /\ volume' = DefaultVolume
    /\ is_paused' = FALSE
    /\ wire' = <<>>
    /\ inbox' = <<>>

\* stop() called by the application
Stop ==
    /\ StopEffects
    /\ UNCHANGED <<playback_stats, auto_next_callback, request_id, command_queue,
                   event_handlers, mon_pc, dispatched>>

\* play(url, auto_next_callback): stop(), spawn mpv, wait for its socket,
\* connect, start the threads, subscribe and ask for the first statistics.
\* outcome: "ok"; "no_mpv" (Popen raises FileNotFoundError); "no_socket" (the
\* socket never appears); "connect_error" (connect raises)
Play(callback, outcome) ==
    /\ auto_next_callback' = callback
    /\ volume' = DefaultVolume
    /\ is_paused' = FALSE
    /\ wire' = <<>>
    /\ inbox' = <<>>
    /\ UNCHANGED <<playback_stats, event_handlers, dispatched>>
    /\ CASE outcome = "no_mpv" ->
              /\ process' = (IF process = "alive" THEN "exited" ELSE process)
              /\ is_running' = FALSE
              /\ ipc_socket' = "none"
              /\ UNCHANGED <<request_id, command_queue, mon_pc>>
         [] outcome = "no_socket" ->
              /\ process' = "alive"
              /\ is_running' = FALSE
              /\ ipc_socket' = "none"
              /\ UNCHANGED <<request_id, command_queue, mon_pc>>
         [] outcome = "connect_error" ->
              /\ process' = "alive"
              /\ is_running' = FALSE
              /\ ipc_socket' = "unconnected"
              /\ UNCHANGED <<request_id, command_queue, mon_pc>>
         [] outcome = "ok" ->
              /\ request_id + Len(SubscribeCommands) + Len(StatsCommands)
                   <= MaxRequestId + 1
              /\ process' = "alive"
              /\ is_running' = TRUE
              /\ ipc_socket' = "open"
              /\ mon_pc' = "recv"
              /\ command_queue' =
                   Enqueued(command_queue, request_id, SubscribeCommands \o StatsCommands)
              /\ request_id' = request_id + Len(SubscribeCommands) + Len(StatsCommands)

\* one _send_command(command) without a callback by a method that has checked
\* is_running: nothing is queued when the socket is gone
SendOne ==
    IF is_running /\ ipc_socket # "none"
      THEN /\ request_id <= MaxRequestId
           /\ command_queue' = Enqueued(command_queue, request_id, <<None>>)
           /\ request_id' = request_id + 1
      ELSE UNCHANGED <<command_queue, request_id>>

\* pause(): queues "cycle pause" and flips is_paused at once
Pause ==
    /\ IF ~is_running
         THEN UNCHANGED <<command_queue, request_id, is_paused>>
         ELSE SendOne /\ is_paused' = ~is_paused
    /\ UNCHANGED <<process, is_running, volume, playback_stats, ipc_socket,
                   auto_next_callback, event_handlers, wire, inbox, mon_pc, dispatched>>

\* seek(offset)
Seek ==
    /\ IF ~is_running
         THEN UNCHANGED <<command_queue, request_id>>
         ELSE SendOne
    /\ UNCHANGED <<process, is_running, is_paused, volume, playback_stats, ipc_socket,
                   auto_next_callback, event_handlers, wire, inbox, mon_pc, dispatched>>

\* max(0, min(100, volume))
Clamp(v) == IF v < 0 THEN 0 ELSE IF v > 100 THEN 100 ELSE v

\* set_volume(v)
SetVolume(v) ==
    /\ IF ~is_running
         THEN UNCHANGED <<command_queue, request_id, volume>>
         ELSE SendOne /\ volume' = Clamp(v)
    /\ UNCHANGED <<process, is_running, is_paused, playback_stats, ipc_socket,
                   auto_next_callback, event_handlers, wire, inbox, mon_pc, dispatched>>

\* adjust_volume(delta)
AdjustVolume(delta) == SetVolume(volume + delta)

\* self.event_handlers[id] = callback
Registered(handlers, id, callback) ==
    [i \in (DOMAIN handlers) \cup {id} |-> IF i = id THEN callback ELSE handlers[i]]

\* _command_handler, one turn of its loop: take a command from the queue, write
\* it to the socket, store its callback under its request id.  A write to a
\* socket mpv has closed raises; the command is lost and nothing is stored.
CommandHandler ==
    /\ is_running /\ ipc_socket = "open"
    /\ command_queue # <<>>
    /\ LET cmd == Head(command_queue)
       IN  /\ command_queue' = Tail(command_queue)
           /\ IF process = "alive"
                THEN /\ wire' = Append(wire, cmd)
                     /\ event_handlers' =
                          IF cmd.callback # None
                            THEN Registered(event_handlers, cmd.request_id, cmd.callback)
                            ELSE event_handlers
                ELSE UNCHANGED <<wire, event_handlers>>
    /\ UNCHANGED <<process, is_running, is_paused, volume, playback_stats, ipc_socket,
                   auto_next_callback, request_id, inbox, mon_pc, dispatched>>

\* mpv answers the oldest command it has read
MpvRespond ==
    /\ process = "alive" /\ wire # <<>> /\ Len(inbox) < MaxInbox
    /\ \E r \in MpvResponses(Head(wire).request_id) : inbox' = Append(inbox, r)
    /\ wire' = Tail(wire)
    /\ UNCHANGED <<process, is_running, is_paused, volume, playback_stats, ipc_socket,
                   auto_next_callback, request_id, command_queue, event_handlers,
                   mon_pc, dispatched>>

\* mpv writes an event
MpvEvent(e) ==
    /\ process = "alive" /\ ipc_socket = "open" /\ Len(inbox) < MaxInbox
    /\ inbox' = Append(inbox, e)
    /\ UNCHANGED <<process, is_running, is_paused, volume, playback_stats, ipc_socket,
                   auto_next_callback, request_id, command_queue, event_handlers,
                   wire, mon_pc, dispatched>>

\* mpv exits on its own; its end of the socket closes
MpvExit ==
    /\ process = "alive"
    /\ process' = "exited"
    /\ wire' = <<>>
    /\ UNCHANGED <<is_running, is_paused, volume, playback_stats, ipc_socket,
                   auto_next_callback, request_id, command_queue, event_handlers,
                   inbox, mon_pc, dispatched>>

\* a pop that leaves the registration in place
PoppedNone(handlers, id) == handlers

\* event_handlers.pop(id)
Popped(handlers, id) == [i \in (DOMAIN handlers) \ {id} |-> handlers[i]]

\* an end-file test that does not look at the reason
EndedAnyReason(msg) == msg.kind = "event" /\ msg.event = "end-file"

\* event_name == 'end-file' and reason == 'eof'
EndedNaturally(msg) ==
    msg.kind = "event" /\ msg.event = "end-file" /\ msg.reason = "eof"

\* what _handle_mpv_response(msg) does: the notification it raises, the state
\* it writes, the registration it removes and the callback it invokes
Handled(msg) ==
    LET isEof == EndedNaturally(msg) /\ auto_next_callback /\ is_running
        isVolume == /\ msg.kind = "event" /\ msg.event = "property-change"
                    /\ msg.name = "volume" /\ msg.has_data
        resolves == msg.kind = "response" /\ msg.request_id \in DOMAIN event_handlers
        cb == IF resolves THEN event_handlers[msg.request_id] ELSE None
    IN  [what     |-> IF msg.kind = "event" THEN msg.event ELSE msg.kind,
         advanced |-> IF isEof THEN 1 ELSE 0,
         volume   |-> IF isVolume THEN msg.data ELSE volume,
         stats    |-> IF isVolume
                        THEN [playback_stats EXCEPT !["volume"] = msg.data]
                        ELSE IF resolves /\ msg.has_data /\ cb \in StatKeys
                        THEN [playback_stats EXCEPT ![cb] = msg.data]
                        ELSE playback_stats,
         handlers |-> IF resolves THEN Popped(event_handlers, msg.request_id)
                      ELSE event_handlers,
         invoked  |-> IF resolves THEN <<cb>> ELSE <<>>]

\* _monitor_playback, a line read: _handle_mpv_response on it
MonitorDispatch ==
    /\ mon_pc = "recv"
    /\ is_running /\ ipc_socket = "open"
    /\ inbox # <<>>
    /\ LET h == Handled(Head(inbox))
       IN  /\ inbox' = Tail(inbox)
           /\ volume' = h.volume
           /\ playback_stats' = h.stats
           /\ event_handlers' = h.handlers
           /\ dispatched' = [what |-> h.what, invoked |-> h.invoked,
                             advanced |-> h.advanced]
    /\ mon_pc' = "update"
    /\ UNCHANGED <<process, is_running, is_paused, ipc_socket, auto_next_callback,
                   request_id, command_queue, wire>>

\* _monitor_playback after the lines read: _update_playback_stats() unless
\* paused or stopped meanwhile
MonitorUpdateStats ==
    /\ mon_pc = "update"
    /\ mon_pc' = "recv"
    /\ IF is_running /\ ~is_paused /\ ipc_socket # "none"
         THEN /\ request_id + Len(StatsCommands) <= MaxRequestId + 1
              /\ command_queue' = Enqueued(command_queue, request_id, StatsCommands)
              /\ request_id' = request_id + Len(StatsCommands)
         ELSE UNCHANGED <<command_queue, request_id>>
    /\ dispatched' = NoDispatch
    /\ UNCHANGED <<process, is_running, is_paused, volume, playback_stats, ipc_socket,
                   auto_next_callback, event_handlers, wire, inbox>>

\* _monitor_playback reading end-of-stream: it calls stop() and leaves the
\* loop; is_running is then False, so its closing auto-next call is skipped
MonitorClosed ==
    /\ mon_pc = "recv"
    /\ is_running /\ ipc_socket = "open"
    /\ inbox = <<>> /\ process = "exited"
    /\ StopEffects
    /\ UNCHANGED <<playback_stats, auto_next_callback, request_id, command_queue,
                   event_handlers, mon_pc, dispatched>>

\* the volumes and deltas a caller passes
VolumeArgs == {-5, 150}
VolumeDeltas == {-100, 100}

QueuedNext ==
    \/ (\E callback \in BOOLEAN :
          \E outcome \in {"ok", "no_mpv", "no_socket", "connect_error"} :
            Play(callback, outcome)) /\ UNCHANGED exceptQp
    \/ Stop /\ UNCHANGED exceptQp
    \/ Pause /\ UNCHANGED exceptQp
    \/ Seek /\ UNCHANGED exceptQp
    \/ (\E v \in VolumeArgs : SetVolume(v)) /\ UNCHANGED exceptQp
    \/ (\E d \in VolumeDeltas : AdjustVolume(d)) /\ UNCHANGED exceptQp
    \/ CommandHandler /\ UNCHANGED exceptQp
    \/ MpvRespond /\ UNCHANGED exceptQp
    \/ (\E e \in MpvEvents : MpvEvent(e)) /\ UNCHANGED exceptQp
    \/ MpvExit /\ UNCHANGED exceptQp
    \/ MonitorDispatch /\ UNCHANGED exceptQp
    \/ MonitorUpdateStats /\ UNCHANGED exceptQp
    \/ MonitorClosed /\ UNCHANGED exceptQp

(* ---------------------------------------------------------------------- *)
(* main.py: background tasks and the event queue                           *)
(* ---------------------------------------------------------------------- *)

\* threads _run_in_background starts
MaxThreads == 2

EVENT_DOWNLOAD_COMPLETED == "download_completed"
EVENT_OPERATION_COMPLETED == "operation_completed"
EVENT_PLAYBACK_STARTED == "playback_started"
EVENT_ERROR == "error"

\* the positional parameters of the task functions, self apart
Arity == [_fetch_song_info |-> 1, _download_song |-> 2, _download_all_songs |-> 1]

\* the callers of _run_in_background: the task, the arguments meant for it and
\* the completion handler
Sites ==
    [_cmd_add_song         |-> [task_func |-> "_fetch_song_info", nargs |-> 1,
                                handler |-> "_add_song_after_fetch"],
     _cmd_get_song_info    |-> [task_func |-> "_fetch_song_info", nargs |-> 1,
                                handler |-> "_update_song_info"],
     _cmd_download_current |-> [task_func |-> "_download_song", nargs |-> 2,
                                handler |-> "_handle_download_result"],
     _cmd_download_all     |-> [task_func |-> "_download_all_songs", nargs |-> 1,
                                handler |-> "_handle_download_all_result"],
     _play_song            |-> [task_func |-> "_download_song", nargs |-> 2,
                                handler |-> "_play_after_download"]]

\* the events a completion handler puts on the queue when called with a
\* result; ok tells whether the result reports success.  _play_after_download
\* goes on to _play_now, which reports the playback it starts.
HandlerPuts(handler, ok) ==
    CASE handler = "_handle_download_result" ->
           <<[type |-> EVENT_DOWNLOAD_COMPLETED, success |-> ok]>>
      [] handler = "_play_after_download" ->
           <<[type |-> EVENT_PLAYBACK_STARTED, success |-> TRUE]>>
      [] OTHER -> <<>>

\* whether a completion handler assigns into self.downloaded_songs
HandlerWritesCache(handler, ok) ==
    \/ handler = "_play_after_download" /\ ok
    \/ handler = "_handle_download_all_result" /\ ok

\* TerminalMusicPlayerApp.__init__
BGInit ==
    /\ threads = <<>>
    /\ event_queue = <<>>
    /\ cache_writers = {}

\* _run_in_background(task_func, *args, callback=callback): the thread it
\* starts, with the number of positional arguments it holds for the task
RunInBackground(task_func, nargs, callback) ==
    /\ Len(threads) < MaxThreads
    /\ threads' = Append(threads,
                         [task_func |-> task_func, nargs |-> nargs, callback |-> callback,
                          pc |-> "started", queued |-> FALSE, handler_thread |-> None])
    /\ UNCHANGED <<event_queue, cache_writers>>

\* a caller of _run_in_background.  Every caller in main.py passes its handler
\* as the last positional argument ("positional"), where it joins *args and
\* callback stays None; the signature takes it by keyword ("keyword").
CallSite(site, passing) ==
    LET c == Sites[site]
    IN  IF passing = "positional"
          THEN RunInBackground(c.task_func, c.nargs + 1, None)
          ELSE RunInBackground(c.task_func, c.nargs, c.handler)

\* _background_task on thread t: task_func(*args), then callback(result) if a
\* callback was given; any exception puts EVENT_ERROR on the queue.
\* outcome: what the task does when called with the arguments it expects;
\* handler_raises: whether the handler raises
BackgroundTask(t, outcome, handler_raises) ==
    LET th == threads[t]
        error == <<[type |-> EVENT_ERROR, success |-> FALSE]>>
        progress == IF th.task_func = "_download_all_songs"
                      THEN <<[type |-> EVENT_OPERATION_COMPLETED, success |-> TRUE]>>
                      ELSE <<>>
        ok == outcome = "ok"
    IN  /\ th.pc = "started"
        /\ IF th.nargs # Arity[th.task_func]
             THEN \* TypeError: the task function is not entered
                  /\ event_queue' = event_queue \o error
                  /\ threads' = [threads EXCEPT ![t].pc = "done", ![t].queued = TRUE]
                  /\ UNCHANGED cache_writers
             ELSE IF outcome = "raises"
             THEN /\ event_queue' = event_queue \o progress \o error
                  /\ threads' = [threads EXCEPT ![t].pc = "done", ![t].queued = TRUE]
                  /\ UNCHANGED cache_writers
             ELSE IF th.callback = None
             THEN /\ event_queue' = event_queue \o progress
                  /\ threads' = [threads EXCEPT ![t].pc = "done"]
                  /\ UNCHANGED cache_writers
             ELSE IF handler_raises
             THEN /\ event_queue' = event_queue \o progress \o error
                  /\ threads' = [threads EXCEPT ![t].pc = "done",
                                                ![t].handler_thread = "worker"]
                  /\ UNCHANGED cache_writers
             ELSE /\ event_queue' =
                       event_queue \o progress \o HandlerPuts(th.callback, ok)
                  /\ threads' = [threads EXCEPT ![t].pc = "done",
                                                ![t].handler_thread = "worker"]
                  /\ cache_writers' =
                       IF HandlerWritesCache(th.callback, ok)
                         THEN cache_writers \cup {"worker"}
                         ELSE cache_writers

\* _process_events: the main loop handles every queued event; a
\* download-completed event that reports success is entered in the cache
ProcessEvents ==
    /\ event_queue # <<>>
    /\ event_queue' = <<>>
    /\ cache_writers' =
         IF \E k \in 1..Len(event_queue) :
              event_queue[k].type = EVENT_DOWNLOAD_COMPLETED /\ event_queue[k].success
           THEN cache_writers \cup {"main"}
           ELSE cache_writers
    /\ UNCHANGED threads

BackgroundNext ==
    \/ (\E site \in DOMAIN Sites, passing \in {"positional", "keyword"} :
          CallSite(site, passing)) /\ UNCHANGED exceptBg
    \/ (\E t \in 1..Len(threads), outcome \in {"ok", "failed", "raises"},
          handler_raises \in BOOLEAN :
          BackgroundTask(t, outcome, handler_raises)) /\ UNCHANGED exceptBg
    \/ ProcessEvents /\ UNCHANGED exceptBg

(* ---------------------------------------------------------------------- *)
(* music_player.py                                                         *)
(* ---------------------------------------------------------------------- *)

\* lines buffered on the listener's connection
MaxListenerInbox == 1

\* a position, a duration and a title mpv reports
SomePosition == 7
SomeDuration == 9
SomeTitle == "t"

\* PlaybackStatus(): the defaults of the dataclass, with the playing flag given
PlaybackStatus(playing) ==
    [playing |-> playing, paused |-> FALSE, duration |-> 0, position |-> 0,
     volume |-> DefaultVolume, media_title |-> ""]

\* one event line as _handle_event sees it; text holds a string payload
DirectEvent(event, name, reason, data, text) ==
    [event |-> event, name |-> name, reason |-> reason, data |-> data, text |-> text,
     has_data |-> TRUE]

\* a property-change line without "data": the property is not available
DirectEventNoData(name) ==
    [event |-> "property-change", name |-> name, reason |-> "", data |-> 0, text |-> "",
     has_data |-> FALSE]

\* the events mpv may write to the listener
DirectEvents ==
    {DirectEvent("property-change", "volume", "", v, "") : v \in VolumeReports}
    \cup {DirectEvent("property-change", "pause", "", b, "") : b \in {0, 1}}
    \cup {DirectEvent("property-change", "time-pos", "", SomePosition, ""),
          DirectEvent("property-change", "duration", "", SomeDuration, ""),
          DirectEvent("property-change", "media-title", "", 0, SomeTitle),
          DirectEvent("end-file", "", "eof", 0, ""),
          DirectEvent("end-file", "", "stop", 0, "")}

\* nothing handled yet
NothingHandled == [what |-> "none", advanced |-> 0]

\* the caller is in none of the player's methods
Idle == [pc |-> "idle", op |-> "", arg |-> 0]

\* MusicPlayer.__init__
MPInit ==
    /\ mp_process = "none"
    /\ mp_is_running = FALSE
    /\ status = PlaybackStatus(FALSE)
    /\ mp_auto_next_callback = FALSE
    /\ ipc_thread = "none"
    /\ conn = "none"
    /\ socket_file = FALSE
    /\ mp_inbox = <<>>
    /\ caller = Idle
    /\ handled = NothingHandled

\* is_playing()
IsPlaying == mp_is_running /\ status.playing /\ mp_process = "alive"

\* stop(): only a live process is stopped.  Its _send_command(quit) returns at
\* once because is_running is already False; the process is then terminated.
\* mpv unlinks its socket when it ends.
DirectStopEffects ==
    IF mp_process = "alive"
      THEN /\ mp_is_running' = FALSE
           /\ mp_process' = "exited"
           /\ conn' = (IF conn = "open" THEN "closed" ELSE conn)
           /\ socket_file' = FALSE
      ELSE UNCHANGED <<mp_is_running, mp_process, conn, socket_file>>

\* stop() called by the application
DirectStop ==
    /\ caller.pc = "idle"
    /\ DirectStopEffects
    /\ status' = IF mp_process = "alive" THEN [status EXCEPT !.playing = FALSE]
                 ELSE status
    /\ UNCHANGED <<mp_auto_next_callback, ipc_thread, mp_inbox, caller, handled>>

\* play(url, auto_next_callback): stop(), a fresh PlaybackStatus, spawn mpv,
\* start the listener.  outcome: "ok", or "no_mpv" (Popen raises
\* FileNotFoundError after the status was replaced)
DirectPlay(callback, outcome) ==
    /\ caller.pc = "idle"
    /\ mp_auto_next_callback' = callback
    /\ UNCHANGED <<caller, handled>>
    /\ IF outcome = "no_mpv"
         THEN /\ DirectStopEffects
              /\ status' = PlaybackStatus(FALSE)
              /\ UNCHANGED <<ipc_thread, mp_inbox>>
         ELSE /\ mp_process' = "alive"
              /\ mp_is_running' = TRUE
              /\ status' = PlaybackStatus(TRUE)
              /\ ipc_thread' = "connect"
              /\ conn' = "none"
              /\ socket_file' = FALSE
              /\ mp_inbox' = <<>>

\* mpv creates its socket
MpvOpensSocket ==
    /\ mp_process = "alive" /\ ~socket_file
    /\ socket_file' = TRUE
    /\ UNCHANGED <<mp_process, mp_is_running, status, mp_auto_next_callback,
                   ipc_thread, conn, mp_inbox, caller, handled>>

\* mpv writes an event to the listener's connection
DirectMpvEvent(e) ==
    /\ mp_process = "alive" /\ conn = "open" /\ Len(mp_inbox) < MaxListenerInbox
    /\ mp_inbox' = Append(mp_inbox, e)
    /\ UNCHANGED <<mp_process, mp_is_running, status, mp_auto_next_callback,
                   ipc_thread, conn, socket_file, caller, handled>>

\* mpv exits on its own
DirectMpvExit ==
    /\ mp_process = "alive"
    /\ mp_process' = "exited"
    /\ conn' = (IF conn = "open" THEN "closed" ELSE conn)
    /\ socket_file' = FALSE
    /\ UNCHANGED <<mp_is_running, status, mp_auto_next_callback, ipc_thread,
                   mp_inbox, caller, handled>>

\* the listener's connection is lost while mpv keeps running
ConnectionLost ==
    /\ mp_process = "alive" /\ conn = "open"
    /\ conn' = "closed"
    /\ UNCHANGED <<mp_process, mp_is_running, status, mp_auto_next_callback,
                   ipc_thread, socket_file, mp_inbox, caller, handled>>

\* a loop condition that does not poll the process
ListeningUnpolled == mp_is_running

\* the condition of both loops of _ipc_listen_thread
Listening == mp_is_running /\ mp_process = "alive"

\* _ipc_listen_thread, outer loop: connect when the socket file is there
IpcListenConnect ==
    /\ ipc_thread = "connect" /\ Listening /\ socket_file
    /\ ipc_thread' = "recv"
    /\ conn' = "open"
    /\ mp_inbox' = <<>>
    /\ UNCHANGED <<mp_process, mp_is_running, status, mp_auto_next_callback,
                   socket_file, caller, handled>>

\* a _handle_event that has no branch for the volume property
HandledEventWithoutVolume(e) ==
    LET eof == e.event = "end-file" /\ e.reason = "eof" /\ mp_auto_next_callback
        change == e.event = "property-change" /\ e.has_data
    IN  [status |->
           IF change /\ e.name = "time-pos" THEN [status EXCEPT !.position = e.data]
           ELSE IF change /\ e.name = "duration" THEN [status EXCEPT !.duration = e.data]
           ELSE IF change /\ e.name = "pause" THEN [status EXCEPT !.paused = (e.data # 0)]
           ELSE IF change /\ e.name = "media-title"
                  THEN [status EXCEPT !.media_title = e.text]
           ELSE IF eof THEN [status EXCEPT !.playing = FALSE]
           ELSE status,
         advanced |-> IF eof THEN 1 ELSE 0]

\* a _handle_event whose duration branch writes the position as well
HandledEventClobbering(e) ==
    LET eof == e.event = "end-file" /\ e.reason = "eof" /\ mp_auto_next_callback
        change == e.event = "property-change" /\ e.has_data
    IN  [status |->
           IF change /\ e.name = "time-pos" THEN [status EXCEPT !.position = e.data]
           ELSE IF change /\ e.name = "duration"
                  THEN [status EXCEPT !.duration = e.data, !.position = e.data]
           ELSE IF change /\ e.name = "pause" THEN [status EXCEPT !.paused = (e.data # 0)]
           ELSE IF change /\ e.name = "volume" THEN [status EXCEPT !.volume = e.data]
           ELSE IF change /\ e.name = "media-title"
                  THEN [status EXCEPT !.media_title = e.text]
           ELSE IF eof THEN [status EXCEPT !.playing = FALSE]
           ELSE status,
         advanced |-> IF eof THEN 1 ELSE 0]

\* _handle_event(event): the status it leaves and the auto-next calls it makes
HandledEvent(e) ==
    LET eof == e.event = "end-file" /\ e.reason = "eof" /\ mp_auto_next_callback
        change == e.event = "property-change" /\ e.has_data
    IN  [status |->
           IF change /\ e.name = "time-pos" THEN [status EXCEPT !.position = e.data]
           ELSE IF change /\ e.name = "duration" THEN [status EXCEPT !.duration = e.data]
           ELSE IF change /\ e.name = "pause" THEN [status EXCEPT !.paused = (e.data # 0)]
           ELSE IF change /\ e.name = "volume" THEN [status EXCEPT !.volume = e.data]
           ELSE IF change /\ e.name = "media-title"
                  THEN [status EXCEPT !.media_title = e.text]
           ELSE IF eof THEN [status EXCEPT !.playing = FALSE]
           ELSE status,
         advanced |-> IF eof THEN 1 ELSE 0]

\* _ipc_listen_thread, inner loop: a line was received and is handled
IpcListenRecv ==
    /\ ipc_thread = "recv" /\ mp_inbox # <<>>
    /\ LET e == Head(mp_inbox)
           h == HandledEvent(e)
       IN  /\ status' = h.status
           /\ handled' = [what |-> e.event, advanced |-> h.advanced]
    /\ mp_inbox' = Tail(mp_inbox)
    /\ UNCHANGED <<mp_process, mp_is_running, mp_auto_next_callback, ipc_thread,
                   conn, socket_file, caller>>

\* _ipc_listen_thread, inner loop: recv returns no data, the connection is
\* closed; back to the outer loop, which connects again while mpv runs
IpcListenClosed ==
    /\ ipc_thread = "recv" /\ Listening /\ mp_inbox = <<>> /\ conn = "closed"
    /\ ipc_thread' = "connect"
    /\ conn' = "none"
    /\ UNCHANGED <<mp_process, mp_is_running, status, mp_auto_next_callback,
                   socket_file, mp_inbox, caller, handled>>

\* _ipc_listen_thread leaves its loops because the player was stopped or mpv
\* is gone; if the status still says playing it calls the auto-next callback
IpcListenExit ==
    /\ ipc_thread \in {"connect", "recv"} /\ ~Listening
    /\ ipc_thread' = "ended"
    /\ IF status.playing /\ mp_auto_next_callback
         THEN /\ status' = [status EXCEPT !.playing = FALSE]
              /\ handled' = [what |-> "exit", advanced |-> 1]
         ELSE /\ handled' = [what |-> "exit", advanced |-> 0]
              /\ UNCHANGED status
    /\ UNCHANGED <<mp_process, mp_is_running, mp_auto_next_callback, conn,
                   socket_file, mp_inbox, caller>>

\* pause, resume, toggle_pause, seek, set_volume(v), adjust_volume(delta) up to
\* the point where _send_command has written the command and waits for the
\* answer.  A method that finds the player not playing returns False; a
\* _send_command that finds no socket file returns None at once.
\* arg: the volume set_volume sends, after its clamp
BeginCommand(op, arg) ==
    /\ caller.pc = "idle"
    /\ IsPlaying
    /\ op = "resume" => status.paused
    /\ socket_file
    /\ caller' = [pc |-> "waiting", op |-> op, arg |-> arg]
    /\ UNCHANGED <<mp_process, mp_is_running, status, mp_auto_next_callback,
                   ipc_thread, conn, socket_file, mp_inbox, handled>>

\* pause()
DirectPause == BeginCommand("pause", 0)

\* resume()
DirectResume == BeginCommand("resume", 0)

\* toggle_pause()
DirectTogglePause ==
    IF status.paused THEN BeginCommand("resume", 0) ELSE BeginCommand("pause", 0)

\* seek(position)
DirectSeek == BeginCommand("seek", 0)

\* set_volume(volume)
DirectSetVolume(v) == BeginCommand("set_volume", Clamp(v))

\* adjust_volume(delta)
DirectAdjustVolume(delta) == DirectSetVolume(status.volume + delta)

\* _send_command returns and the method finishes: result is the error field
\* of the line read ("success" or "error"), or "none" when nothing was read
\* within the second waited or the line was no answer
EndCommand(result) ==
    /\ caller.pc = "waiting"
    /\ result # "none" => mp_process = "alive"
    /\ caller' = Idle
    /\ status' =
         IF result # "success" THEN status
         ELSE IF caller.op = "pause" THEN [status EXCEPT !.paused = TRUE]
         ELSE IF caller.op = "resume" THEN [status EXCEPT !.paused = FALSE]
         ELSE IF caller.op = "set_volume" THEN [status EXCEPT !.volume = caller.arg]
         ELSE status
    /\ UNCHANGED <<mp_process, mp_is_running, mp_auto_next_callback, ipc_thread,
                   conn, socket_file, mp_inbox, handled>>

DirectNext ==
    \/ (\E callback \in BOOLEAN, outcome \in {"ok", "no_mpv"} :
          DirectPlay(callback, outcome)) /\ UNCHANGED exceptMp
    \/ DirectStop /\ UNCHANGED exceptMp
    \/ DirectPause /\ UNCHANGED exceptMp
    \/ DirectResume /\ UNCHANGED exceptMp
    \/ DirectTogglePause /\ UNCHANGED exceptMp
    \/ DirectSeek /\ UNCHANGED exceptMp
    \/ (\E v \in VolumeArgs : DirectSetVolume(v)) /\ UNCHANGED exceptMp
    \/ (\E d \in VolumeDeltas : DirectAdjustVolume(d)) /\ UNCHANGED exceptMp
    \/ (\E result \in {"success", "error", "none"} : EndCommand(result))
          /\ UNCHANGED exceptMp
    \/ MpvOpensSocket /\ UNCHANGED exceptMp
    \/ (\E e \in DirectEvents : DirectMpvEvent(e)) /\ UNCHANGED exceptMp
    \/ DirectMpvExit /\ UNCHANGED exceptMp
    \/ ConnectionLost /\ UNCHANGED exceptMp
    \/ IpcListenConnect /\ UNCHANGED exceptMp
    \/ IpcListenRecv /\ UNCHANGED exceptMp
    \/ IpcListenClosed /\ UNCHANGED exceptMp
    \/ IpcListenExit /\ UNCHANGED exceptMp

(* ---------------------------------------------------------------------- *)
(* main.py: _download_song                                                 *)
(* ---------------------------------------------------------------------- *)

\* the longest song title
MaxTitleLen == 1

\* the urls downloads are asked for
SourceUrls == {"u1", "u2"}

\* the characters of a title: a letter, a character the file name keeps and
\* one it replaces
Chars == {"a", "-", "/"}

\* a title is a sequence of characters
Titles == UNION {[1..n -> Chars] : n \in 1..MaxTitleLen}

\* c.isalnum() or c in [' ', '-', '_']
KeptChar(c) == c \in {"a", " ", "-", "_"}

\* "".join([c if c.isalnum() or c in [' ', '-', '_'] else '_' for c in title])
SafeTitle(title) ==
    [k \in 1..Len(title) |-> IF KeptChar(title[k]) THEN title[k] ELSE "_"]

\* f"downloads/{safe_title}.mp3": a file of downloads/ is named by its safe title
Filename(title) == SafeTitle(title)

\* os.path.exists(filename)
Cached(url, title) == Filename(title) \in files

\* no _download_song call yet
NoDownload ==
    [url |-> "", title |-> <<>>, success |-> FALSE, tool |-> FALSE, again |-> FALSE]

\* the downloads directory as the application finds it
DLInit ==
    /\ files = {}
    /\ fetched = {}
    /\ last_download = NoDownload

\* _download_song(url, title): return the file if it exists, else run
\* player.download_song (yt-dlp), which succeeds when it exits with 0 and the
\* file is there.  tool_ok: whether yt-dlp would succeed.
\* last_download.again tells whether the url had been downloaded before.
DownloadSong(url, title, tool_ok) ==
    IF Cached(url, title)
      THEN /\ last_download' = [url |-> url, title |-> title, success |-> TRUE,
                                tool |-> FALSE, again |-> url \in fetched]
           /\ UNCHANGED <<files, fetched>>
      ELSE /\ last_download' = [url |-> url, title |-> title, success |-> tool_ok,
                                tool |-> TRUE, again |-> url \in fetched]
           /\ files' = IF tool_ok THEN files \cup {Filename(title)} ELSE files
           /\ fetched' = IF tool_ok THEN fetched \cup {url} ELSE fetched

DownloadNext ==
    (\E url \in SourceUrls, title \in Titles, tool_ok \in BOOLEAN :
        DownloadSong(url, title, tool_ok)) /\ UNCHANGED exceptDl

(* ---------------------------------------------------------------------- *)
(* main.py: the main loop and its commands                                 *)
(* ---------------------------------------------------------------------- *)

\* messages the model keeps of self.ui.messages (ui.py keeps the last five)
MaxMessages == 1

\* a message of the interface: who posted it (the except clause of run(), an
\* event's handler or a command) and whether it is marked as an error
Message(from, error) == [from |-> from, error |-> error]

\* UI.add_message: append, then drop the oldest beyond the limit
AddMessage(messages, m) ==
    LET all == Append(messages, m)
    IN  IF Len(all) > MaxMessages THEN Tail(all) ELSE all

RECURSIVE AddMessages(_, _)
AddMessages(messages, ms) ==
    IF ms = <<>> THEN messages
    ELSE AddMessages(AddMessage(messages, Head(ms)), Tail(ms))

\* no call of _play_now yet
NoPlay == [source |-> "none", success |-> FALSE, message |-> ""]

\* TerminalMusicPlayerApp.__init__ with an empty downloads directory
APInit ==
    /\ app_is_running = TRUE
    /\ loop_pc = "events"
    /\ auto_download = FALSE
    /\ downloaded_songs = {}
    /\ ui_messages = <<>>
    /\ last_play = NoPlay
    /\ pending_play = FALSE

\* is_playing() of player.py
QueuedIsPlaying == is_running /\ process = "alive"

\* a run() whose except clause is missing: the exception ends the loop
LoopRaisedUncaught(messages) ==
    /\ ui_messages' = messages
    /\ app_is_running' = FALSE
    /\ loop_pc' = "ended"

\* run(), except Exception: the error is posted as a message and the loop goes
\* on with its next iteration
LoopRaised(messages) ==
    /\ ui_messages' = AddMessage(messages, Message("run", TRUE))
    /\ loop_pc' = "events"
    /\ UNCHANGED app_is_running

\* the message _handle_event posts for an event
EventMessage(e) ==
    Message("event", \/ e.type = EVENT_ERROR
                     \/ e.type = EVENT_DOWNLOAD_COMPLETED /\ ~e.success)

EventMessages(events) == [k \in 1..Len(events) |-> EventMessage(events[k])]

\* whether one of the events reports a finished download
DownloadReported(events) ==
    \E k \in 1..Len(events) :
        events[k].type = EVENT_DOWNLOAD_COMPLETED /\ events[k].success

\* run(): _process_events.  raising = 0: every queued event is handled;
\* raising = k: the handler of the k-th event raises, the events before it
\* have been handled and the ones after it stay queued
LoopProcessEvents(raising) ==
    LET done == SubSeq(event_queue, 1, IF raising = 0 THEN Len(event_queue)
                                       ELSE raising - 1)
    IN  /\ app_is_running /\ loop_pc = "events"
        /\ downloaded_songs' =
             IF DownloadReported(done) THEN downloaded_songs \cup Urls
             ELSE downloaded_songs
        /\ cache_writers' =
             IF DownloadReported(done) THEN cache_writers \cup {"main"}
             ELSE cache_writers
        /\ IF raising = 0
             THEN /\ event_queue' = <<>>
                  /\ ui_messages' = AddMessages(ui_messages, EventMessages(done))
                  /\ loop_pc' = "command"
                  /\ UNCHANGED app_is_running
             ELSE /\ event_queue' = SubSeq(event_queue, raising + 1, Len(event_queue))
                  /\ LoopRaised(AddMessages(ui_messages, EventMessages(done)))
        /\ UNCHANGED <<threads, qpVars, auto_download, last_play, pending_play>>

\* run(): get_command timed out, there is no command
NoCommand ==
    /\ loop_pc = "command"
    /\ loop_pc' = "ui"
    /\ UNCHANGED <<app_is_running, auto_download, downloaded_songs, ui_messages,
                   last_play, pending_play, bgVars, qpVars>>

\* a command was handled and posted a message
Commanded(error) ==
    /\ loop_pc = "command"
    /\ loop_pc' = "ui"
    /\ ui_messages' = AddMessage(ui_messages, Message("command", error))

\* _cmd_quit
CmdQuit ==
    /\ loop_pc = "command"
    /\ loop_pc' = "ui"
    /\ IF QueuedIsPlaying THEN Stop ELSE UNCHANGED qpVars
    /\ app_is_running' = FALSE
    /\ UNCHANGED <<auto_download, downloaded_songs, ui_messages, last_play,
                   pending_play, bgVars>>

\* _cmd_stop
CmdStop ==
    /\ Commanded(~QueuedIsPlaying)
    /\ IF QueuedIsPlaying THEN Stop ELSE UNCHANGED qpVars
    /\ UNCHANGED <<app_is_running, auto_download, downloaded_songs, last_play,
                   pending_play, bgVars>>

\* _cmd_toggle_auto_download
CmdToggleAutoDownload ==
    /\ Commanded(FALSE)
    /\ auto_download' = ~auto_download
    /\ UNCHANGED <<app_is_running, downloaded_songs, last_play, pending_play,
                   bgVars, qpVars>>

\* _handle_command with a command that is not known
CmdUnknown ==
    /\ Commanded(TRUE)
    /\ UNCHANGED <<app_is_running, auto_download, downloaded_songs, last_play,
                   pending_play, bgVars, qpVars>>

\* _cmd_download_current
CmdDownloadCurrent ==
    /\ Commanded(songs = <<>>)
    /\ IF songs # <<>> THEN CallSite("_cmd_download_current", "positional")
       ELSE UNCHANGED bgVars
    /\ UNCHANGED <<app_is_running, auto_download, downloaded_songs, last_play,
                   pending_play, qpVars>>

\* what play() returns with each outcome
PlayResult(outcome) ==
    [success |-> outcome = "ok",
     message |-> CASE outcome = "ok" -> ""
                   [] outcome = "no_mpv" -> "MPV not found"
                   [] outcome = "no_socket" -> "Failed to establish IPC connection"
                   [] OTHER -> "Error playing audio"]

\* a _play_now that reports every playback as started
PlayNowEventAlwaysStarted(success) ==
    [type |-> EVENT_PLAYBACK_STARTED, success |-> TRUE]

\* the event _play_now queues after play() returned
PlayNowEvent(success) ==
    IF success THEN [type |-> EVENT_PLAYBACK_STARTED, success |-> TRUE]
    ELSE [type |-> EVENT_ERROR, success |-> FALSE]

\* _play_now(index, filename) for the current song: play() from the file if
\* there is one, else from the url, then the event for its result
PlayNow(outcome) ==
    /\ Play(TRUE, outcome)
    /\ event_queue' = Append(event_queue, PlayNowEvent(PlayResult(outcome).success))
    /\ last_play' = [source  |-> IF songs[1] \in downloaded_songs THEN "LOKAL"
                                  ELSE "STREAM",
                     success |-> PlayResult(outcome).success,
                     message |-> PlayResult(outcome).message]

\* _play_song(index) for the current song: with auto-download on and the song
\* not downloaded the download is started and the play is left to its handler
PlaySong(outcome) ==
    IF auto_download /\ songs[1] \notin downloaded_songs
      THEN /\ ui_messages' = AddMessage(ui_messages, Message("command", FALSE))
           /\ CallSite("_play_song", "positional")
           /\ pending_play' = TRUE
           /\ UNCHANGED <<qpVars, last_play>>
      ELSE /\ PlayNow(outcome)
           /\ UNCHANGED <<threads, cache_writers, ui_messages, pending_play>>

\* _cmd_play
CmdPlay(outcome) ==
    /\ loop_pc = "command"
    /\ loop_pc' = "ui"
    /\ IF songs = <<>>
         THEN /\ ui_messages' = AddMessage(ui_messages, Message("command", TRUE))
              /\ UNCHANGED <<qpVars, bgVars, last_play, pending_play>>
         ELSE PlaySong(outcome)
    /\ UNCHANGED <<app_is_running, auto_download, downloaded_songs>>

\* run(): the handler of the command raises
CommandRaises ==
    /\ loop_pc = "command"
    /\ LoopRaised(ui_messages)
    /\ UNCHANGED <<auto_download, downloaded_songs, last_play, pending_play,
                   bgVars, qpVars>>

\* run(): _update_ui
LoopUpdateUi(raises) ==
    /\ loop_pc = "ui"
    /\ IF raises THEN LoopRaised(ui_messages)
       ELSE /\ loop_pc' = "events"
            /\ UNCHANGED <<app_is_running, ui_messages>>
    /\ UNCHANGED <<auto_download, downloaded_songs, last_play, pending_play,
                   bgVars, qpVars>>

\* run(), except KeyboardInterrupt
LoopInterrupt ==
    /\ app_is_running /\ loop_pc \in {"events", "command", "ui"}
    /\ app_is_running' = FALSE
    /\ loop_pc' = "events"
    /\ UNCHANGED <<auto_download, downloaded_songs, ui_messages, last_play,
                   pending_play, bgVars, qpVars>>

\* run(): the loop has ended; playback is stopped before run() returns
LoopExit ==
    /\ ~app_is_running /\ loop_pc = "events"
    /\ loop_pc' = "ended"
    /\ IF QueuedIsPlaying THEN Stop ELSE UNCHANGED qpVars
    /\ UNCHANGED <<app_is_running, auto_download, downloaded_songs, ui_messages,
                   last_play, pending_play, bgVars>>

\* _background_task on thread t beside the main loop.  When the handler of
\* _play_song, _play_after_download, is called it enters the file in
\* downloaded_songs or posts that it falls back to streaming, and calls
\* _play_now
AppBackgroundTask(t, outcome, handler_raises) ==
    LET th == threads[t]
        called == /\ th.nargs = Arity[th.task_func] /\ outcome # "raises"
                  /\ th.callback = "_play_after_download" /\ ~handler_raises
    IN  /\ BackgroundTask(t, outcome, handler_raises)
        /\ IF called
             THEN /\ Play(TRUE, "ok")
                  /\ last_play' = [source  |-> IF outcome = "ok" THEN "LOKAL"
                                                ELSE "STREAM",
                                   success |-> TRUE, message |-> ""]
                  /\ pending_play' = FALSE
                  /\ downloaded_songs' = IF outcome = "ok"
                                           THEN downloaded_songs \cup Urls
                                           ELSE downloaded_songs
                  /\ ui_messages' = IF outcome = "ok" THEN ui_messages
                                    ELSE AddMessage(ui_messages, Message("event", FALSE))
             ELSE UNCHANGED <<qpVars, last_play, pending_play, downloaded_songs,
                              ui_messages>>
        /\ UNCHANGED <<app_is_running, loop_pc, auto_download>>

\* the play() outcomes
PlayOutcomes == {"ok", "no_mpv", "no_socket", "connect_error"}

MainNext ==
    \/ (\E raising \in 0..Len(event_queue) : LoopProcessEvents(raising))
         /\ UNCHANGED exceptApp
    \/ NoCommand /\ UNCHANGED exceptApp
    \/ CmdQuit /\ UNCHANGED exceptApp
    \/ CmdStop /\ UNCHANGED exceptApp
    \/ CmdToggleAutoDownload /\ UNCHANGED exceptApp
    \/ CmdUnknown /\ UNCHANGED exceptApp
    \/ CmdDownloadCurrent /\ UNCHANGED exceptApp
    \/ (\E outcome \in PlayOutcomes : CmdPlay(outcome)) /\ UNCHANGED exceptApp
    \/ CommandRaises /\ UNCHANGED exceptApp
    \/ (\E raises \in BOOLEAN : LoopUpdateUi(raises)) /\ UNCHANGED exceptApp
    \/ LoopInterrupt /\ UNCHANGED exceptApp
    \/ LoopExit /\ UNCHANGED exceptApp
    \/ (\E t \in 1..Len(threads), outcome \in {"ok", "failed", "raises"},
          handler_raises \in BOOLEAN :
          AppBackgroundTask(t, outcome, handler_raises)) /\ UNCHANGED exceptApp

(* ---------------------------------------------------------------------- *)
(* music_player.py: a listener that outlives stop()                        *)
(* ---------------------------------------------------------------------- *)

\* no earlier listener
OLInit ==
    /\ old_thread = "none"
    /\ old_inbox = <<>>
    /\ dispatched_by = {}

\* play() while the listener of the playback before may still be running:
\* stop() joins it for 0.5 s only, and the thread may be in a wait for the
\* socket file that lasts up to 2 s.  A listener that outlives the join finds
\* is_running True again and the new process alive, and goes on.
\* join_times_out: whether the join ends before the thread does
RestartPlay(callback, join_times_out) ==
    /\ DirectPlay(callback, "ok")
    /\ old_thread' =
         IF join_times_out /\ ipc_thread = "connect" /\ ~socket_file THEN "sleep"
         ELSE IF join_times_out /\ old_thread \in {"sleep", "recv"} THEN "sleep"
         ELSE IF old_thread = "none" THEN "none" ELSE "ended"
    /\ old_inbox' = <<>>
    /\ dispatched_by' = {}

\* the earlier listener, outer loop: it connects when the socket file is there
OldListenerConnect ==
    /\ old_thread = "sleep" /\ Listening /\ socket_file
    /\ old_thread' = "recv"
    /\ old_inbox' = <<>>
    /\ UNCHANGED <<mpVars, dispatched_by>>

\* mpv writes an event: every connected client is sent it
BroadcastMpvEvent(e) ==
    /\ mp_inbox = <<>> /\ old_inbox = <<>>
    /\ DirectMpvEvent(e)
    /\ old_inbox' = IF old_thread = "recv" THEN <<e>> ELSE <<>>
    /\ dispatched_by' = {}
    /\ UNCHANGED old_thread

\* the listener of the last play() handles a line
NewListenerRecv ==
    /\ IpcListenRecv
    /\ dispatched_by' = dispatched_by \cup {"new"}
    /\ UNCHANGED <<old_thread, old_inbox>>

\* the earlier listener, inner loop: a line was received and is handled
OldListenerRecv ==
    /\ old_thread = "recv" /\ old_inbox # <<>>
    /\ LET e == Head(old_inbox)
           h == HandledEvent(e)
       IN  /\ status' = h.status
           /\ handled' = [what |-> e.event, advanced |-> h.advanced]
    /\ old_inbox' = Tail(old_inbox)
    /\ dispatched_by' = dispatched_by \cup {"old"}
    /\ UNCHANGED <<mp_process, mp_is_running, mp_auto_next_callback, ipc_thread,
                   conn, socket_file, mp_inbox, caller, old_thread>>

\* the earlier listener leaves its loops because the player was stopped or
\* mpv is gone
OldListenerExit ==
    /\ old_thread \in {"sleep", "recv"} /\ ~Listening
    /\ old_thread' = "ended"
    /\ old_inbox' = <<>>
    /\ IF status.playing /\ mp_auto_next_callback
         THEN /\ status' = [status EXCEPT !.playing = FALSE]
              /\ handled' = [what |-> "exit", advanced |-> 1]
         ELSE /\ handled' = [what |-> "exit", advanced |-> 0]
              /\ UNCHANGED status
    /\ UNCHANGED <<mp_process, mp_is_running, mp_auto_next_callback, ipc_thread,
                   conn, socket_file, mp_inbox, caller, dispatched_by>>

RestartNext ==
    \/ (\E callback \in BOOLEAN, join_times_out \in BOOLEAN :
          RestartPlay(callback, join_times_out)) /\ UNCHANGED exceptOl
    \/ DirectStop /\ UNCHANGED olVars /\ UNCHANGED exceptOl
    \/ MpvOpensSocket /\ UNCHANGED olVars /\ UNCHANGED exceptOl
    \/ (\E e \in DirectEvents : BroadcastMpvEvent(e)) /\ UNCHANGED exceptOl
    \/ DirectMpvExit /\ UNCHANGED olVars /\ UNCHANGED exceptOl
    \/ IpcListenConnect /\ UNCHANGED olVars /\ UNCHANGED exceptOl
    \/ NewListenerRecv /\ UNCHANGED exceptOl
    \/ IpcListenExit /\ UNCHANGED olVars /\ UNCHANGED exceptOl
    \/ OldListenerConnect /\ UNCHANGED exceptOl
    \/ OldListenerRecv /\ UNCHANGED exceptOl
    \/ OldListenerExit /\ UNCHANGED exceptOl

(* ---------------------------------------------------------------------- *)
(* player.py: _send_command step by step                                   *)
(* ---------------------------------------------------------------------- *)

\* the threads that call _send_command: the application's thread (pause,
\* seek, set_volume) and the monitor thread (_update_playback_stats)
SenderThreads == {"main", "monitor"}

\* a thread outside _send_command
NotSending == [pc |-> "idle", id |-> 0, tmp |-> 0, callback |-> None]

SAInit == senders = [t \in SenderThreads |-> NotSending]

\* _send_command, `command['request_id'] = self.request_id`.  The monitor
\* thread sends after it has handled a line; its command carries a callback
SendAssign(t) ==
    /\ senders[t].pc = "idle"
    /\ t = "monitor" => mon_pc = "update"
    /\ is_running /\ ipc_socket # "none"
    /\ request_id <= MaxRequestId
    /\ senders' = [senders EXCEPT ![t] =
                     [pc |-> "assigned", id |-> request_id, tmp |-> 0,
                      callback |-> IF t = "monitor" THEN StatCallbacks[1] ELSE None]]
    /\ UNCHANGED qpVars

\* _send_command, `self.request_id += 1`: the counter is loaded
SendLoad(t) ==
    /\ senders[t].pc = "assigned"
    /\ senders' = [senders EXCEPT ![t].pc = "loaded", ![t].tmp = request_id]
    /\ UNCHANGED qpVars

\* _send_command, `self.request_id += 1`: the sum is stored; then the command
\* is put on the queue
SendStore(t) ==
    /\ senders[t].pc = "loaded"
    /\ request_id' = senders[t].tmp + 1
    /\ command_queue' = Append(command_queue,
                               [request_id |-> senders[t].id,
                                callback |-> senders[t].callback])
    /\ mon_pc' = IF t = "monitor" THEN "recv" ELSE mon_pc
    /\ senders' = [senders EXCEPT ![t] = NotSending]
    /\ UNCHANGED <<process, is_running, is_paused, volume, playback_stats, ipc_socket,
                   auto_next_callback, event_handlers, wire, inbox, dispatched>>

\* play() by the application's thread, started with mpv
StartPlayback ==
    /\ \A t \in SenderThreads : senders[t].pc = "idle"
    /\ Play(FALSE, "ok")
    /\ UNCHANGED senders

AllocateNext ==
    \/ StartPlayback /\ UNCHANGED exceptSa
    \/ (\E t \in SenderThreads : SendAssign(t)) /\ UNCHANGED exceptSa
    \/ (\E t \in SenderThreads : SendLoad(t)) /\ UNCHANGED exceptSa
    \/ (\E t \in SenderThreads : SendStore(t)) /\ UNCHANGED exceptSa
    \/ CommandHandler /\ UNCHANGED senders /\ UNCHANGED exceptSa
    \/ MpvRespond /\ UNCHANGED senders /\ UNCHANGED exceptSa
    \/ MonitorDispatch /\ UNCHANGED senders /\ UNCHANGED exceptSa

(* ---------------------------------------------------------------------- *)
(* stop() in both players: what reaches mpv                                *)
(* ---------------------------------------------------------------------- *)

\* the variables of the other parts of the program
exceptSt == <<pmVars, bgVars, dlVars, appVars, olVars, saVars, bkVars, rxVars,
    advVars, heVars, ixVars, rgVars>>

STInit == received = <<>> /\ mp_received = <<>>

\* what a stop() sends to a process: is_running is already False when
\* _send_command is called with the quit command, so that call returns at
\* once; music_player.py then offers 'q' to a process started without a stdin
\* pipe.  What is left is terminate(), and kill() when the process has not
\* gone a second later
Signals(alive, outlasts_terminate) ==
    IF ~alive THEN <<>>
    ELSE IF outlasts_terminate THEN <<"SIGTERM", "SIGKILL">>
    ELSE <<"SIGTERM">>

\* player.py stop()
StopSignalling(outlasts_terminate) ==
    /\ Stop
    /\ received' = Signals(process = "alive", outlasts_terminate)
    /\ UNCHANGED mp_received

\* player.py play(): a new process, which has been sent nothing
PlaySpawning ==
    /\ Play(FALSE, "ok")
    /\ received' = <<>>
    /\ UNCHANGED mp_received

\* music_player.py stop()
DirectStopSignalling(outlasts_terminate) ==
    /\ DirectStop
    /\ mp_received' = Signals(mp_process = "alive", outlasts_terminate)
    /\ UNCHANGED received

\* music_player.py play(): a new process, which has been sent nothing
DirectPlaySpawning ==
    /\ DirectPlay(FALSE, "ok")
    /\ mp_received' = <<>>
    /\ UNCHANGED received

StopNext ==
    \/ PlaySpawning /\ UNCHANGED mpVars /\ UNCHANGED exceptSt
    \/ (\E o \in BOOLEAN : StopSignalling(o)) /\ UNCHANGED mpVars /\ UNCHANGED exceptSt
    \/ CommandHandler /\ UNCHANGED <<mpVars, stVars>> /\ UNCHANGED exceptSt
    \/ MpvRespond /\ UNCHANGED <<mpVars, stVars>> /\ UNCHANGED exceptSt
    \/ MonitorDispatch /\ UNCHANGED <<mpVars, stVars>> /\ UNCHANGED exceptSt
    \/ MonitorUpdateStats /\ UNCHANGED <<mpVars, stVars>> /\ UNCHANGED exceptSt
    \/ MpvExit /\ UNCHANGED <<mpVars, stVars>> /\ UNCHANGED exceptSt
    \/ DirectPlaySpawning /\ UNCHANGED qpVars /\ UNCHANGED exceptSt
    \/ (\E o \in BOOLEAN : DirectStopSignalling(o)) /\ UNCHANGED qpVars /\ UNCHANGED exceptSt
    \/ DirectMpvExit /\ UNCHANGED <<qpVars, stVars>> /\ UNCHANGED exceptSt

(* ---------------------------------------------------------------------- *)
(* music_player.py: the reconnect delay of _ipc_listen_thread              *)
(* ---------------------------------------------------------------------- *)

\* times are counted in units of 1/1280 s, in which 0.1 * 1.5^k is a whole
\* number for every k that stays below the ceiling
MinDelay == 128       \* reconnect_delay = 0.1
MaxDelay == 2560      \* max_reconnect_delay = 2.0

\* min(reconnect_delay * 1.5, max_reconnect_delay)
Grown(d) == IF (d * 3) \div 2 < MaxDelay THEN (d * 3) \div 2 ELSE MaxDelay

\* the variables of the other parts of the program
exceptBk == <<pmVars, qpVars, bgVars, dlVars, appVars, olVars, saVars, stVars, rxVars,
    advVars, heVars, ixVars, rgVars>>

Connecting(after, waited) == [after |-> after, waited |-> waited]

BKInit == reconnect_delay = MinDelay /\ reconnect = Connecting("start", 0)

\* play(): the listener thread starts with its locals
ListenerStart ==
    /\ DirectPlay(FALSE, "ok")
    /\ reconnect_delay' = MinDelay
    /\ reconnect' = Connecting("start", 0)

\* outer loop, the socket path does not exist: sleep, grow the delay, continue
ListenerWait ==
    /\ ipc_thread = "connect" /\ Listening /\ ~socket_file
    /\ reconnect' = [reconnect EXCEPT !.waited = reconnect_delay]
    /\ reconnect_delay' = Grown(reconnect_delay)
    /\ UNCHANGED mpVars

\* outer loop, the socket path exists: the delay is set back to 0.1, then
\* connect() is called.  connected: whether mpv accepts; a path left behind by
\* a killed mpv, or one mpv has bound but does not listen on yet, refuses, and
\* the handler of the exception sleeps and grows the delay
ListenerAttempt(connected) ==
    /\ ipc_thread = "connect" /\ Listening /\ socket_file
    /\ IF connected
         THEN /\ IpcListenConnect
              /\ reconnect_delay' = MinDelay
              /\ reconnect' = Connecting("connected", 0)
         ELSE /\ reconnect_delay' = Grown(MinDelay)
              /\ reconnect' = Connecting("failed", MinDelay)
              /\ UNCHANGED mpVars

\* inner loop left on a closed connection: straight back to the outer loop
ListenerClosed ==
    /\ IpcListenClosed
    /\ reconnect' = Connecting("closed", 0)
    /\ UNCHANGED reconnect_delay

BackoffNext ==
    \/ ListenerStart /\ UNCHANGED exceptBk
    \/ DirectStop /\ UNCHANGED bkVars /\ UNCHANGED exceptBk
    \/ MpvOpensSocket /\ UNCHANGED bkVars /\ UNCHANGED exceptBk
    \/ DirectMpvExit /\ UNCHANGED bkVars /\ UNCHANGED exceptBk
    \/ ConnectionLost /\ UNCHANGED bkVars /\ UNCHANGED exceptBk
    \/ (\E e \in DirectEvents : DirectMpvEvent(e)) /\ UNCHANGED bkVars /\ UNCHANGED exceptBk
    \/ IpcListenRecv /\ UNCHANGED bkVars /\ UNCHANGED exceptBk
    \/ IpcListenExit /\ UNCHANGED bkVars /\ UNCHANGED exceptBk
    \/ ListenerWait /\ UNCHANGED exceptBk
    \/ (\E connected \in BOOLEAN : ListenerAttempt(connected)) /\ UNCHANGED exceptBk
    \/ ListenerClosed /\ UNCHANGED exceptBk

(* ---------------------------------------------------------------------- *)
(* The receive loops: bytes read, lines forwarded                          *)
(* ---------------------------------------------------------------------- *)

\* messages mpv writes in one playback
MaxWritten == 2

\* the variables of the other parts of the program
exceptRx == <<pmVars, qpVars, bgVars, dlVars, mpVars, appVars, olVars, saVars, stVars,
              bkVars,
    advVars, heVars, ixVars, rgVars>>

\* the bytes of the messages mpv writes, UTF-8: "a" and "b" are ASCII bytes,
\* "hi" "lo" are the two bytes of one character outside ASCII (a title, a
\* metadata value), "nl" is the newline that ends a message
MessageBytes == {<<"a", "b">>, <<"hi", "lo">>}

RXInit ==
    /\ written = <<>>
    /\ unread = <<>> /\ buffer = <<>> /\ forwarded = <<>>
    /\ mp_unread = <<>> /\ mp_buffer = <<>> /\ mp_forwarded = <<>>

\* bytes.decode('utf-8') succeeds: every lead byte is followed by its
\* continuation byte, no continuation byte stands alone
RECURSIVE Decodes(_)
Decodes(bytes) ==
    IF bytes = <<>> THEN TRUE
    ELSE IF Head(bytes) = "hi"
           THEN Len(bytes) >= 2 /\ bytes[2] = "lo" /\ Decodes(Tail(Tail(bytes)))
    ELSE IF Head(bytes) = "lo" THEN FALSE
    ELSE Decodes(Tail(bytes))

\* the str bytes.decode('utf-8') returns when it succeeds
RECURSIVE Decoded(_)
Decoded(bytes) ==
    IF bytes = <<>> THEN <<>>
    ELSE IF Head(bytes) = "hi" THEN <<"e'">> \o Decoded(Tail(Tail(bytes)))
    ELSE <<Head(bytes)>> \o Decoded(Tail(bytes))

\* `while '\n' in buffer: line, buffer = buffer.split('\n', 1)`: the lines
\* taken off the buffer; line is the part of the current line already passed
RECURSIVE CompleteLines(_, _)
CompleteLines(buf, line) ==
    IF buf = <<>> THEN <<>>
    ELSE IF Head(buf) = "nl" THEN <<line>> \o CompleteLines(Tail(buf), <<>>)
    ELSE CompleteLines(Tail(buf), Append(line, Head(buf)))

\* ... and the buffer that is left
RECURSIVE Remainder(_, _)
Remainder(buf, line) ==
    IF buf = <<>> THEN line
    ELSE IF Head(buf) = "nl" THEN Remainder(Tail(buf), <<>>)
    ELSE Remainder(Tail(buf), Append(line, Head(buf)))

\* the texts json.loads accepts: those of the messages mpv writes
ValidTexts == {Decoded(m) : m \in MessageBytes}

\* the lines that reach the handler: json.loads raises on the others (the
\* empty line among them) and the line is dropped
RECURSIVE Parsed(_)
Parsed(lines) ==
    IF lines = <<>> THEN <<>>
    ELSE IF Head(lines) \in ValidTexts THEN <<Head(lines)>> \o Parsed(Tail(lines))
    ELSE Parsed(Tail(lines))

\* the lines of bytes music_player.py passes on: json.loads decodes each
\* whole line
RECURSIVE ParsedBytes(_)
ParsedBytes(lines) ==
    IF lines = <<>> THEN <<>>
    ELSE IF Head(lines) # <<>> /\ Decodes(Head(lines)) /\ Decoded(Head(lines)) \in ValidTexts
           THEN <<Decoded(Head(lines))>> \o ParsedBytes(Tail(lines))
    ELSE ParsedBytes(Tail(lines))

\* mpv writes a message and its newline to both connections
MpvWrites(m) ==
    /\ Len(written) < MaxWritten
    /\ written' = Append(written, m)
    /\ unread' = unread \o m \o <<"nl">>
    /\ mp_unread' = mp_unread \o m \o <<"nl">>
    /\ UNCHANGED <<buffer, forwarded, mp_buffer, mp_forwarded>>

\* player.py _monitor_playback, one recv that returns n bytes:
\* `data = recv(4096).decode('utf-8')`, `buffer += data`, the lines taken off.
\* A decode that raises is caught by the outer handler: the bytes read are
\* gone and the buffer is as it was
MonitorRead(n) ==
    /\ n \in 1..Len(unread)
    /\ unread' = SubSeq(unread, n + 1, Len(unread))
    /\ LET data == SubSeq(unread, 1, n)
       IN  IF Decodes(data)
             THEN /\ forwarded' = forwarded \o Parsed(CompleteLines(buffer \o Decoded(data), <<>>))
                  /\ buffer' = Remainder(buffer \o Decoded(data), <<>>)
             ELSE UNCHANGED <<buffer, forwarded>>
    /\ UNCHANGED <<written, mp_unread, mp_buffer, mp_forwarded>>

\* music_player.py _ipc_listen_thread, one recv that returns n bytes:
\* `buffer += data` on bytes, the lines taken off
ListenerRead(n) ==
    /\ n \in 1..Len(mp_unread)
    /\ mp_unread' = SubSeq(mp_unread, n + 1, Len(mp_unread))
    /\ LET data == SubSeq(mp_unread, 1, n)
       IN  /\ mp_forwarded' = mp_forwarded \o ParsedBytes(CompleteLines(mp_buffer \o data, <<>>))
           /\ mp_buffer' = Remainder(mp_buffer \o data, <<>>)
    /\ UNCHANGED <<written, unread, buffer, forwarded>>

ReceiveNext ==
    \/ (\E m \in MessageBytes : MpvWrites(m)) /\ UNCHANGED exceptRx
    \/ (\E n \in 1..(3 * MaxWritten) : MonitorRead(n)) /\ UNCHANGED exceptRx
    \/ (\E n \in 1..(3 * MaxWritten) : ListenerRead(n)) /\ UNCHANGED exceptRx

(* ---------------------------------------------------------------------- *)
(* main.py: the end of a song and the advance to the next                  *)
(* ---------------------------------------------------------------------- *)

EVENT_PLAYBACK_ENDED == "playback_ended"

\* the variables of the other parts of the program
exceptAdv == <<dlVars, mpVars, olVars, saVars, stVars, bkVars, rxVars, heVars, ixVars, rgVars>>

\* events waiting on the queue when a command is handled
MaxQueued == 2

\* the results of play() followed here
AdvOutcomes == {"ok", "no_mpv"}

\* the end-file events mpv writes
EndFileEvents == {e \in MpvEvents : e.event = "end-file"}

\* no playback-ended event handled yet
NoAdvance == [consumed |-> FALSE, from |-> 0, to |-> 0, plays |-> <<>>,
              stopped |-> FALSE]

ADVInit == app_current_index = 0 /\ callback_index = 0 /\ advance = NoAdvance

\* _play_now(index, None): play() with on_song_complete bound to index; the
\* event for the result is returned to the caller, which queues it
PlayNowAt(index, outcome) ==
    /\ Play(TRUE, outcome)
    /\ callback_index' = index
    /\ last_play' = [source  |-> IF songs[index + 1] \in downloaded_songs THEN "LOKAL"
                                  ELSE "STREAM",
                     success |-> PlayResult(outcome).success,
                     message |-> PlayResult(outcome).message]

\* _cmd_play: _play_song(app_current_index)
AdvCmdPlay(outcome) ==
    /\ Len(event_queue) < MaxQueued
    /\ songs # <<>> /\ app_current_index < Len(songs)
    /\ IF auto_download /\ songs[app_current_index + 1] \notin downloaded_songs
         THEN /\ ui_messages' = AddMessage(ui_messages, Message("command", FALSE))
              /\ CallSite("_play_song", "positional")
              /\ pending_play' = TRUE
              /\ UNCHANGED <<qpVars, last_play, callback_index, event_queue>>
         ELSE /\ PlayNowAt(app_current_index, outcome)
              /\ event_queue' = Append(event_queue,
                                       PlayNowEvent(PlayResult(outcome).success))
              /\ UNCHANGED <<threads, cache_writers, ui_messages, pending_play>>
    /\ UNCHANGED <<pmVars, app_is_running, loop_pc, auto_download, downloaded_songs,
                   app_current_index, advance>>

\* _cmd_toggle_auto_download
AdvToggleAutoDownload ==
    /\ auto_download' = ~auto_download
    /\ ui_messages' = AddMessage(ui_messages, Message("command", FALSE))
    /\ UNCHANGED <<pmVars, qpVars, bgVars, app_is_running, loop_pc, downloaded_songs,
                   last_play, pending_play, advVars>>

\* _monitor_playback handles a line; on end-file "eof" it calls
\* on_song_complete, which queues the playback-ended event
AdvMonitorDispatch ==
    /\ Len(event_queue) < MaxQueued
    /\ MonitorDispatch
    /\ event_queue' =
         IF Handled(Head(inbox)).advanced = 1
           THEN Append(event_queue, [type |-> EVENT_PLAYBACK_ENDED, success |-> TRUE,
                                     index |-> callback_index])
           ELSE event_queue
    /\ UNCHANGED <<pmVars, threads, cache_writers, appVars, advVars>>

\* _process_events takes a playback-ended event: _handle_event moves the
\* index with get_next_song_index, posts the message and calls _play_song
ConsumeEnded(outcome) ==
    LET to == NextResult(app_current_index).ret
        downloads == auto_download /\ songs[to + 1] \notin downloaded_songs
    IN  /\ event_queue # <<>> /\ Head(event_queue).type = EVENT_PLAYBACK_ENDED
        /\ get_next_song_index(app_current_index)
        /\ app_current_index' = to
        /\ IF songs # <<>> /\ to < Len(songs)
             THEN IF downloads
                    THEN /\ ui_messages' =
                              AddMessages(ui_messages, <<Message("event", FALSE),
                                                         Message("command", FALSE)>>)
                         \* _run_in_background with the handler passed
                         \* positionally
                         /\ Len(threads) < MaxThreads
                         /\ threads' = Append(threads,
                                [task_func |-> "_download_song", nargs |-> 3,
                                 callback |-> None, pc |-> "started",
                                 queued |-> FALSE, handler_thread |-> None])
                         /\ event_queue' = Tail(event_queue)
                         /\ pending_play' = TRUE
                         /\ UNCHANGED <<qpVars, last_play, callback_index, cache_writers>>
                    ELSE /\ ui_messages' = AddMessage(ui_messages, Message("event", FALSE))
                         /\ PlayNowAt(to, outcome)
                         /\ event_queue' = Append(Tail(event_queue),
                                                  PlayNowEvent(PlayResult(outcome).success))
                         /\ UNCHANGED <<threads, cache_writers, pending_play>>
             ELSE /\ event_queue' = Tail(event_queue)
                  /\ UNCHANGED <<qpVars, threads, cache_writers, ui_messages, last_play,
                                 pending_play, callback_index>>
        /\ advance' = [consumed |-> TRUE, from |-> app_current_index, to |-> to,
                       plays |-> IF songs # <<>> /\ to < Len(songs) /\ ~downloads
                                   THEN <<to>> ELSE <<>>,
                       stopped |-> ~QueuedIsPlaying]
        /\ UNCHANGED <<app_is_running, loop_pc, auto_download, downloaded_songs>>

\* _process_events takes another event: _handle_event posts its message
ConsumeOther ==
    /\ event_queue # <<>> /\ Head(event_queue).type # EVENT_PLAYBACK_ENDED
    /\ event_queue' = Tail(event_queue)
    /\ ui_messages' = AddMessage(ui_messages, EventMessage(Head(event_queue)))
    /\ UNCHANGED <<pmVars, qpVars, threads, cache_writers, app_is_running, loop_pc,
                   auto_download, downloaded_songs, last_play, pending_play, advVars>>

\* a step of the player's threads or of mpv beside the main loop
AdvPlayerStep(A) ==
    A /\ UNCHANGED <<pmVars, bgVars, appVars, advVars>>

\* _background_task of the download _play_song started
AdvBackgroundTask(t) ==
    /\ BackgroundTask(t, "ok", FALSE)
    /\ UNCHANGED <<pmVars, qpVars, appVars, advVars>>

AdvanceNext ==
    \/ (\E outcome \in AdvOutcomes : AdvCmdPlay(outcome)) /\ UNCHANGED exceptAdv
    \/ AdvToggleAutoDownload /\ UNCHANGED exceptAdv
    \/ AdvMonitorDispatch /\ UNCHANGED exceptAdv
    \/ (\E outcome \in AdvOutcomes : ConsumeEnded(outcome)) /\ UNCHANGED exceptAdv
    \/ ConsumeOther /\ UNCHANGED exceptAdv
    \/ (\E e \in EndFileEvents : AdvPlayerStep(MpvEvent(e))) /\ UNCHANGED exceptAdv
    \/ AdvPlayerStep(MonitorUpdateStats) /\ UNCHANGED exceptAdv
    \/ AdvPlayerStep(MpvExit) /\ UNCHANGED exceptAdv
    \/ AdvPlayerStep(MonitorClosed) /\ UNCHANGED exceptAdv
    \/ (\E t \in 1..Len(threads) : AdvBackgroundTask(t)) /\ UNCHANGED exceptAdv

\* _cmd_stop beside the events on the queue: stop() when something plays
AdvCmdStop ==
    /\ IF QueuedIsPlaying THEN Stop ELSE UNCHANGED qpVars
    /\ ui_messages' = AddMessage(ui_messages, Message("command", ~QueuedIsPlaying))
    /\ UNCHANGED <<pmVars, bgVars, app_is_running, loop_pc, auto_download,
                   downloaded_songs, last_play, pending_play, advVars>>

\* playbacks that succeed, the user's stop and the events of the songs' ends:
\* here only the user's stop ends a playback
UserStopNext ==
    \/ AdvCmdPlay("ok") /\ UNCHANGED exceptAdv
    \/ AdvCmdStop /\ UNCHANGED exceptAdv
    \/ AdvMonitorDispatch /\ UNCHANGED exceptAdv
    \/ ConsumeEnded("ok") /\ UNCHANGED exceptAdv
    \/ ConsumeOther /\ UNCHANGED exceptAdv
    \/ (\E e \in EndFileEvents : AdvPlayerStep(MpvEvent(e))) /\ UNCHANGED exceptAdv
    \/ AdvPlayerStep(MonitorUpdateStats) /\ UNCHANGED exceptAdv

(* ---------------------------------------------------------------------- *)
(* music_player.py: _handle_event on every kind of property-change line    *)
(* ---------------------------------------------------------------------- *)

\* the variables of the other parts of the program
exceptHe == <<pmVars, qpVars, bgVars, dlVars, appVars, olVars, saVars, stVars, bkVars,
              rxVars, advVars, ixVars, rgVars>>

\* a property _handle_event has no branch for
UnknownProperty == DirectEvent("property-change", "speed", "", 2, "")

\* the lines mpv may write: the events above, a property that is not
\* observed by name in _handle_event, and properties reported without a value
HandleEvents ==
    DirectEvents \cup {UnknownProperty}
        \cup {DirectEventNoData(n) : n \in {"time-pos", "volume"}}

\* no line handled yet
NoneSeen == DirectEvent("none", "", "", 0, "")

HEInit == seen = NoneSeen

\* mpv writes a line to the listener's connection
HandleMpvWrites(e) ==
    /\ mp_process = "alive" /\ conn = "open" /\ Len(mp_inbox) < MaxListenerInbox
    /\ mp_inbox' = Append(mp_inbox, e)
    /\ UNCHANGED <<mp_process, mp_is_running, status, mp_auto_next_callback,
                   ipc_thread, conn, socket_file, caller, handled, seen>>

\* the listener hands a line to _handle_event
HandleRecv ==
    /\ IpcListenRecv
    /\ seen' = Head(mp_inbox)

HandleNext ==
    \/ (\E callback \in BOOLEAN : DirectPlay(callback, "ok"))
         /\ UNCHANGED seen /\ UNCHANGED exceptHe
    \/ MpvOpensSocket /\ UNCHANGED seen /\ UNCHANGED exceptHe
    \/ IpcListenConnect /\ UNCHANGED seen /\ UNCHANGED exceptHe
    \/ (\E e \in HandleEvents : HandleMpvWrites(e)) /\ UNCHANGED exceptHe
    \/ HandleRecv /\ UNCHANGED exceptHe

(* ---------------------------------------------------------------------- *)
(* music_player.py: lines that are not messages of the protocol            *)
(* ---------------------------------------------------------------------- *)

\* lines that are no protocol message: text that is not JSON; JSON that is
\* not an object (a list, a number, a string); an object whose value has the
\* wrong type for its property
MalformedLines ==
    {DirectEvent("malformed", k, "", 0, "") : k \in {"not_json", "not_object", "bad_value"}}

\* whether handling the line raises something other than JSONDecodeError:
\* json.loads raises JSONDecodeError on text that is not JSON, which the inner
\* try catches; on a list or a number `event.get` raises AttributeError, on a
\* value of the wrong type float()/int() raise ValueError
Raises(e) == e.event = "malformed" /\ e.name # "not_json"

\* the listener takes a line that is handled or is dropped as invalid JSON
MalformedRecv ==
    /\ mp_inbox # <<>> /\ ~Raises(Head(mp_inbox))
    /\ HandleRecv

\* the listener takes a line whose handling raises: `except Exception` logs
\* "Socket error" and breaks the inner loop; the connection is closed by the
\* with statement and the buffer with what was read after the line is gone;
\* the outer loop connects again
MalformedRaises ==
    /\ ipc_thread = "recv" /\ mp_inbox # <<>> /\ Raises(Head(mp_inbox))
    /\ seen' = Head(mp_inbox)
    /\ ipc_thread' = "connect"
    /\ conn' = "none"
    /\ mp_inbox' = <<>>
    /\ UNCHANGED <<mp_process, mp_is_running, status, mp_auto_next_callback,
                   socket_file, caller, handled>>

MalformedNext ==
    \/ (\E callback \in BOOLEAN : DirectPlay(callback, "ok"))
         /\ UNCHANGED seen /\ UNCHANGED exceptHe
    \/ MpvOpensSocket /\ UNCHANGED seen /\ UNCHANGED exceptHe
    \/ IpcListenConnect /\ UNCHANGED seen /\ UNCHANGED exceptHe
    \/ (\E e \in DirectEvents \cup MalformedLines : HandleMpvWrites(e))
         /\ UNCHANGED exceptHe
    \/ MalformedRecv /\ UNCHANGED exceptHe
    \/ MalformedRaises /\ UNCHANGED exceptHe

(* ---------------------------------------------------------------------- *)
(* main.py: the commands that select, add, edit and delete songs           *)
(* ---------------------------------------------------------------------- *)

\* the variables these commands leave alone
exceptCmd == <<dlVars, mpVars, olVars, saVars, stVars, bkVars, rxVars, heVars, rgVars>>

IXInit == index_kind = "int"

\* what the forms return: a title or none, a url ("u1" stands for one that
\* begins with http://), a duration
FormTitles == {"", "t"}
FormUrls == Urls \cup {"", "ftp://x"}
FormDurations == {"Unknown", "3:45", "abc"}

\* validate_song_data(title, artist, url, duration): the errors it lists
validate_song_data(title, url, duration) ==
    (IF title = "" THEN {"Judul lagu tidak valid"} ELSE {})
    \cup (IF url = "" THEN {"URL lagu tidak valid"}
          ELSE IF url \notin Urls THEN {"URL harus dimulai dengan http:// atau https://"}
          ELSE {})
    \cup (IF duration # "" /\ duration # "Unknown" /\ duration # "3:45"
            THEN {"Format durasi harus MM:SS"} ELSE {})

\* update_song(index, title, artist, url, duration) for an index in the list
update_song(index, title, url, duration) ==
    /\ songs' = IF validate_song_data(title, url, duration) = {}
                  THEN [songs EXCEPT ![index + 1] = url] ELSE songs
    /\ calls' = <<>>
    /\ UNCHANGED <<shuffle_mode, shuffle_history, shuffle_index>>

\* `if self.player.is_playing(): self.player.stop()`
StopIfPlaying == IF QueuedIsPlaying THEN Stop ELSE UNCHANGED qpVars

\* `songs and self.current_index < len(songs)`: with songs in the list and a
\* tuple as the index the comparison raises TypeError
GuardRaises == songs # <<>> /\ index_kind = "tuple"
GuardHolds == songs # <<>> /\ index_kind = "int" /\ app_current_index < Len(songs)

\* a command posts a message
Posts(from, error) == ui_messages' = AddMessage(ui_messages, Message(from, error))

\* a command raises before it has changed anything: run() posts the error
CommandRaised ==
    /\ Posts("run", TRUE)
    /\ UNCHANGED <<pmVars, qpVars, threads, app_current_index, index_kind>>

\* _handle_command with a number n
CmdSelect(n) ==
    IF n - 1 < Len(songs)
      THEN /\ StopIfPlaying
           /\ app_current_index' = n - 1
           /\ index_kind' = "int"
           /\ Posts("command", FALSE)
           /\ UNCHANGED <<pmVars, threads>>
      ELSE /\ Posts("command", TRUE)
           /\ UNCHANGED <<pmVars, qpVars, threads, app_current_index, index_kind>>

\* _cmd_next (forward) and _cmd_prev: stop, then the index the playlist
\* manager returns.  In sequential mode a tuple as the index makes
\* `current_index + 1` raise TypeError, in shuffle mode an empty history makes
\* the modulo raise; the message reads songs[current_index], which raises
\* IndexError for an index the list does not have, after the assignment
CmdStep(forward) ==
    LET r == IF forward THEN NextResult(app_current_index)
             ELSE PrevResult(app_current_index)
        raises == (~shuffle_mode /\ index_kind = "tuple") \/ r.raised # ""
    IN  IF songs = <<>>
          THEN /\ Posts("command", TRUE)
               /\ UNCHANGED <<pmVars, qpVars, threads, app_current_index, index_kind>>
          ELSE /\ StopIfPlaying
               /\ UNCHANGED threads
               /\ IF raises
                    THEN /\ Posts("run", TRUE)
                         /\ UNCHANGED <<pmVars, app_current_index, index_kind>>
                    ELSE /\ IF forward THEN get_next_song_index(app_current_index)
                            ELSE get_prev_song_index(app_current_index)
                         /\ app_current_index' = r.ret
                         /\ index_kind' = "int"
                         /\ IF r.ret < Len(songs) THEN Posts("command", FALSE)
                            ELSE Posts("run", TRUE)

\* _cmd_toggle_shuffle
CmdToggleShuffle ==
    /\ toggle_shuffle
    /\ Posts("command", FALSE)
    /\ UNCHANGED <<qpVars, threads, app_current_index, index_kind>>

\* _cmd_add_song with what the form returned: stop; with a title and a url,
\* either the fetch is handed to _run_in_background (duration "Unknown") or
\* the pair add_song returns is assigned to current_index and the success
\* message is posted
CmdAddSong(title, url, duration) ==
    /\ StopIfPlaying
    /\ IF title # "" /\ url # ""
         THEN IF duration = "Unknown"
                THEN /\ CallSite("_cmd_add_song", "positional")
                     /\ Posts("command", FALSE)
                     /\ UNCHANGED <<pmVars, app_current_index, index_kind>>
                ELSE LET valid == validate_song_data(title, url, duration) = {}
                     IN  /\ add_song(url, valid)
                         /\ app_current_index' = IF valid THEN Len(songs) ELSE -1
                         /\ index_kind' = "tuple"
                         /\ Posts("command", FALSE)
                         /\ UNCHANGED threads
         ELSE UNCHANGED <<pmVars, threads, app_current_index, index_kind, ui_messages>>

\* _cmd_edit_song with what the form returned
CmdEditSong(title, url, duration) ==
    IF GuardRaises THEN CommandRaised
    ELSE IF GuardHolds
      THEN /\ StopIfPlaying
           /\ update_song(app_current_index, title, url, duration)
           /\ Posts("command", validate_song_data(title, url, duration) # {})
           /\ UNCHANGED <<threads, app_current_index, index_kind>>
      ELSE /\ Posts("command", TRUE)
           /\ UNCHANGED <<pmVars, qpVars, threads, app_current_index, index_kind>>

\* _cmd_delete_song, confirmed
CmdDeleteSong ==
    IF GuardRaises THEN CommandRaised
    ELSE IF GuardHolds
      THEN /\ StopIfPlaying
           /\ delete_song(app_current_index)
           /\ app_current_index' =
                IF Len(songs) > 1
                  THEN (IF app_current_index < Len(songs) - 2 THEN app_current_index
                        ELSE Len(songs) - 2)
                  ELSE 0
           /\ Posts("command", FALSE)
           /\ UNCHANGED <<threads, index_kind>>
      ELSE /\ Posts("command", TRUE)
           /\ UNCHANGED <<pmVars, qpVars, threads, app_current_index, index_kind>>

\* _handle_command with a word that is no command
CmdUnknownWord ==
    /\ Posts("command", TRUE)
    /\ UNCHANGED <<pmVars, qpVars, threads, app_current_index, index_kind>>

\* _cmd_play (auto-download off): _play_now for the current song
CmdPlayCurrent ==
    IF GuardRaises THEN CommandRaised
    ELSE IF GuardHolds
      THEN /\ Play(TRUE, "ok")
           /\ UNCHANGED <<pmVars, threads, app_current_index, index_kind, ui_messages>>
      ELSE /\ Posts("command", TRUE)
           /\ UNCHANGED <<pmVars, qpVars, threads, app_current_index, index_kind>>

\* what every command leaves alone
CmdFrame ==
    UNCHANGED <<event_queue, cache_writers, app_is_running, loop_pc, auto_download,
                downloaded_songs, last_play, pending_play, callback_index, advance>>

CommandsNext ==
    \/ (\E n \in 1..(MaxSongs + 1) : CmdSelect(n)) /\ CmdFrame /\ UNCHANGED exceptCmd
    \/ (\E forward \in BOOLEAN : CmdStep(forward)) /\ CmdFrame /\ UNCHANGED exceptCmd
    \/ CmdToggleShuffle /\ CmdFrame /\ UNCHANGED exceptCmd
    \/ (\E title \in FormTitles, url \in FormUrls, duration \in FormDurations :
          CmdAddSong(title, url, duration)) /\ CmdFrame /\ UNCHANGED exceptCmd
    \/ (\E title \in FormTitles, url \in FormUrls, duration \in FormDurations :
          CmdEditSong(title, url, duration)) /\ CmdFrame /\ UNCHANGED exceptCmd
    \/ CmdDeleteSong /\ CmdFrame /\ UNCHANGED exceptCmd
    \/ CmdUnknownWord /\ CmdFrame /\ UNCHANGED exceptCmd
    \/ CmdPlayCurrent /\ CmdFrame /\ UNCHANGED exceptCmd

(* ---------------------------------------------------------------------- *)
(* player.py: _command_handler statement by statement                      *)
(* ---------------------------------------------------------------------- *)

\* the variables of the other parts of the program
exceptRg == <<pmVars, bgVars, dlVars, mpVars, appVars, olVars, saVars, stVars, bkVars,
              rxVars, advVars, heVars, ixVars>>

RGInit == storing = <<>> /\ sent_with = <<>> /\ answered = {}

\* _command_handler: command_queue.get and ipc_socket.sendall
CommandHandlerSend ==
    /\ storing = <<>>
    /\ is_running /\ ipc_socket = "open"
    /\ command_queue # <<>>
    /\ LET cmd == Head(command_queue)
       IN  /\ command_queue' = Tail(command_queue)
           /\ IF process = "alive"
                THEN /\ wire' = Append(wire, cmd)
                     /\ storing' = IF cmd.callback # None THEN <<cmd>> ELSE <<>>
                     /\ sent_with' = Registered(sent_with, cmd.request_id, cmd.callback)
                ELSE UNCHANGED <<wire, storing, sent_with>>
    /\ UNCHANGED <<process, is_running, is_paused, volume, playback_stats, ipc_socket,
                   auto_next_callback, request_id, event_handlers, inbox, mon_pc,
                   dispatched, answered>>

\* _command_handler: self.event_handlers[request_id] = callback
CommandHandlerStore ==
    /\ storing # <<>>
    /\ event_handlers' = Registered(event_handlers, storing[1].request_id,
                                    storing[1].callback)
    /\ storing' = <<>>
    /\ UNCHANGED <<process, is_running, is_paused, volume, playback_stats, ipc_socket,
                   auto_next_callback, request_id, command_queue, wire, inbox, mon_pc,
                   dispatched, sent_with, answered>>

\* _monitor_playback handles a line beside the command thread
RegMonitorDispatch ==
    /\ MonitorDispatch
    /\ answered' = IF Head(inbox).kind = "response"
                     THEN answered \cup {Head(inbox).request_id} ELSE answered
    /\ UNCHANGED <<storing, sent_with>>

\* a step of play(), of mpv or of the monitor thread beside the command thread
RegStep(A) == A /\ UNCHANGED rgVars

RegisterNext ==
    \/ RegStep(Play(TRUE, "ok")) /\ UNCHANGED exceptRg
    \/ CommandHandlerSend /\ UNCHANGED exceptRg
    \/ CommandHandlerStore /\ UNCHANGED exceptRg
    \/ RegStep(MpvRespond) /\ UNCHANGED exceptRg
    \/ RegMonitorDispatch /\ UNCHANGED exceptRg
    \/ RegStep(MonitorUpdateStats) /\ UNCHANGED exceptRg

Init == PMInit /\ QPInit /\ BGInit /\ DLInit /\ MPInit /\ APInit /\ OLInit /\ SAInit /\ STInit /\ BKInit
        /\ RXInit /\ ADVInit /\ HEInit /\ IXInit /\ RGInit

\* the application started without a saved playlist
InitNoSongs == Init /\ songs = <<>>

\* the listener thread of music_player.py with mpv and with play() and stop()
ListenerNext ==
    \/ (\E callback \in BOOLEAN, outcome \in {"ok", "no_mpv"} :
          DirectPlay(callback, outcome)) /\ UNCHANGED exceptMp
    \/ DirectStop /\ UNCHANGED exceptMp
    \/ MpvOpensSocket /\ UNCHANGED exceptMp
    \/ (\E e \in DirectEvents : DirectMpvEvent(e)) /\ UNCHANGED exceptMp
    \/ DirectMpvExit /\ UNCHANGED exceptMp
    \/ ConnectionLost /\ UNCHANGED exceptMp
    \/ IpcListenConnect /\ UNCHANGED exceptMp
    \/ IpcListenRecv /\ UNCHANGED exceptMp
    \/ IpcListenClosed /\ UNCHANGED exceptMp
    \/ IpcListenExit /\ UNCHANGED exceptMp

\* the listener thread is scheduled: each of its steps is taken if it stays
\* possible (its waits are bounded: recv times out after 0.5 s, the wait for
\* the socket file after at most 2 s); mpv creates its socket once started
ListenerFairness ==
    /\ WF_vars(IpcListenConnect /\ UNCHANGED exceptMp)
    /\ WF_vars(IpcListenRecv /\ UNCHANGED exceptMp)
    /\ WF_vars(IpcListenClosed /\ UNCHANGED exceptMp)
    /\ WF_vars(IpcListenExit /\ UNCHANGED exceptMp)
    /\ WF_vars(MpvOpensSocket /\ UNCHANGED exceptMp)

SpecListener == InitNoSongs /\ [][ListenerNext]_vars /\ ListenerFairness

\* the player of music_player.py on its own
SpecDirect == InitNoSongs /\ [][DirectNext]_vars

\* the downloads on their own
SpecDownload == InitNoSongs /\ [][DownloadNext]_vars

\* the background tasks and the event queue on their own
SpecBackground == InitNoSongs /\ [][BackgroundNext]_vars

\* the queued-command player on its own: its playlist manager is left as built
SpecQueued == InitNoSongs /\ [][QueuedNext]_vars

\* the threads of player.py take their turns and mpv, while it lives, answers
\* what it has read; when the application calls and whether mpv exits is open
QueuedFairness ==
    /\ WF_vars(CommandHandler /\ UNCHANGED exceptQp)
    /\ WF_vars(MpvRespond /\ UNCHANGED exceptQp)
    /\ WF_vars(MonitorDispatch /\ UNCHANGED exceptQp)
    /\ WF_vars(MonitorUpdateStats /\ UNCHANGED exceptQp)
    /\ WF_vars(MonitorClosed /\ UNCHANGED exceptQp)

SpecQueuedFair == InitNoSongs /\ [][QueuedNext]_vars /\ QueuedFairness

\* the main loop's advance to the next song, with the player of player.py
SpecAdvance == Init /\ [][AdvanceNext]_vars

\* the user's stop beside the playback-ended events on the queue
SpecUserStop == Init /\ [][UserStopNext]_vars

\* the command thread and the monitor thread of player.py
SpecRegister == InitNoSongs /\ [][RegisterNext]_vars

\* the commands of main.py on the playlist, the index and the player
SpecCommands == Init /\ [][CommandsNext]_vars

\* the listener of music_player.py on lines that are no protocol messages
SpecMalformed == InitNoSongs /\ [][MalformedNext]_vars

\* _handle_event of music_player.py on the lines mpv may write
SpecHandle == InitNoSongs /\ [][HandleNext]_vars

\* the receive loops of both players on one stream of messages
SpecReceive == InitNoSongs /\ [][ReceiveNext]_vars

\* the listener of music_player.py with its reconnect delay
SpecBackoff == InitNoSongs /\ [][BackoffNext]_vars

\* stop() and play() of both players with what reaches mpv
SpecStop == InitNoSongs /\ [][StopNext]_vars

\* the threads of player.py that allocate request ids
SpecAllocate == InitNoSongs /\ [][AllocateNext]_vars

\* play() and stop() of music_player.py with the listener of the playback
\* before
SpecRestart == InitNoSongs /\ [][RestartNext]_vars

\* the main loop with the background tasks and the player, started with a
\* playlist of at most one song
InitMain == Init /\ Len(songs) <= 1

SpecMain == InitMain /\ [][MainNext]_vars

(* ---------------------------------------------------------------------- *)
(* Claims about the playlist traversal                                     *)
(* ---------------------------------------------------------------------- *)

\* h is a sequence of length n holding every index of 0..n-1 exactly once
IsPermutation(h, n) ==
    /\ Len(h) = n
    /\ \A x \in 0..(n - 1) : Cardinality({k \in 1..Len(h) : h[k] = x}) = 1

\* the last logged call
LastCall == calls[Len(calls)]

\* the log holds next_index(c) followed immediately by prev_index on the
\* index next_index returned
NextThenPrev ==
    /\ Len(calls) = 2
    /\ calls[1].op = "next" /\ calls[1].raised = ""
    /\ calls[2].op = "prev" /\ calls[2].arg = calls[1].ret

\* C1: on a playlist of fixed size N > 0, after any sequence of toggle_shuffle
\* (and traversal) calls, whenever shuffle is on shuffle_history has length N
\* and holds every index of [0,N) exactly once.  Checked under SpecTraverse.
C1_PermutationIsBijection ==
    (shuffle_mode /\ Len(songs) > 0) => IsPermutation(shuffle_history, Len(songs))

\* C1 witness: shuffle is on over a full-size playlist with a permutation that
\* is not the identity, and the cursor has been moved
C1_Witness ==
    /\ shuffle_mode /\ Len(songs) = MaxSongs
    /\ shuffle_history[1] # 0
    /\ shuffle_index > 0

\* C2 as stated: in both modes, next_index(c) then prev_index on the returned
\* index yields c again, for every non-empty playlist and every c.
C2_RoundTripBothModes ==
    (NextThenPrev /\ Len(songs) > 0) =>
        (calls[2].raised = "" /\ calls[2].ret = calls[1].arg)

\* C2 amended: in Sequential mode the round trip yields c for every c; in
\* Shuffle mode with a non-empty permutation the pair restores the cursor and
\* returns the permutation entry under it, so it yields c when c was the entry
\* under the cursor before the pair.
C2_RoundTrip ==
    (NextThenPrev /\ Len(songs) > 0) =>
        /\ calls[2].raised = ""
        /\ ~shuffle_mode => calls[2].ret = calls[1].arg
        /\ shuffle_mode =>
              /\ shuffle_index = calls[1].cursor
              /\ calls[2].ret = shuffle_history[calls[1].cursor + 1]
              /\ (calls[1].arg = shuffle_history[calls[1].cursor + 1]
                    => calls[2].ret = calls[1].arg)

\* C2 witness: a shuffle-mode round trip from the entry under the cursor, on a
\* permutation whose next entry differs
C2_Witness ==
    /\ NextThenPrev /\ shuffle_mode /\ Len(songs) > 1
    /\ calls[1].arg = shuffle_history[calls[1].cursor + 1]
    /\ calls[1].ret # calls[1].arg
    /\ calls[2].ret = calls[1].arg

\* C3: with shuffle off and N > 0 songs, next_index(c) = (c+1) mod N and
\* prev_index(c) = (c-1) mod N, neither call changes the shuffle cursor or the
\* permutation, and for N = 3 next_index maps 0, 1, 2 to 1, 2, 0.
C3_Sequential ==
    [][(~shuffle_mode /\ Len(songs) > 0 /\ calls' # calls /\ Len(calls') > 0) =>
          LET c == calls'[Len(calls')]
              n == Len(songs)
          IN  /\ c.raised = ""
              /\ c.op = "next" => c.ret = (c.arg + 1) % n
              /\ c.op = "prev" => c.ret = (c.arg - 1) % n
              /\ (c.op = "next" /\ n = 3) => c.ret = <<1, 2, 0>>[c.arg + 1]
              /\ c.ret \in 0..(n - 1)
              /\ UNCHANGED <<shuffle_index, shuffle_history, shuffle_mode, songs>>]_vars

\* C3 witness: three songs, shuffle off, next_index(1) = 2 then next_index(2) = 0
C3_Witness ==
    /\ ~shuffle_mode /\ Len(songs) = 3 /\ Len(calls) = 2
    /\ calls[1].op = "next" /\ calls[1].arg = 1 /\ calls[1].ret = 2
    /\ calls[2].op = "next" /\ calls[2].arg = 2 /\ calls[2].ret = 0

\* C4: whenever the playlist holds exactly one song, next_index and prev_index
\* return 0, in either mode, after any toggle_shuffle, add_song and
\* delete_song calls that left it at size 1.
C4_SingleSongReturnsZero ==
    (Len(songs) = 1 /\ Len(calls) > 0) =>
        (LastCall.raised = "" /\ LastCall.ret = 0)

(* ---------------------------------------------------------------------- *)
(* Claims about the queued-command player                                  *)
(* ---------------------------------------------------------------------- *)

\* the monitor thread handles a command response
DispatchesResponse == MonitorDispatch /\ Head(inbox).kind = "response"

\* the command thread writes a command that carries a callback
SendsWithCallback ==
    CommandHandler /\ process = "alive" /\ Head(command_queue).callback # None

\* C5: a command response carrying request_id X invokes only the callback
\* registered for the command sent with id X, once, and removes that
\* registration; a response whose id has no registration invokes nothing and
\* leaves every registration as it was.  The callback stored under X is the one
\* that was submitted with the command whose request id is X.
C5_ResponseResolvesOwnCallback ==
    [][ /\ DispatchesResponse =>
             LET X == Head(inbox).request_id
             IN  /\ X \in DOMAIN event_handlers =>
                       /\ dispatched'.invoked = <<event_handlers[X]>>
                       /\ DOMAIN event_handlers' = (DOMAIN event_handlers) \ {X}
                 /\ X \notin DOMAIN event_handlers =>
                       /\ dispatched'.invoked = <<>>
                       /\ DOMAIN event_handlers' = DOMAIN event_handlers
                 /\ \A i \in (DOMAIN event_handlers) \ {X} :
                       event_handlers'[i] = event_handlers[i]
        /\ SendsWithCallback =>
             LET cmd == Head(command_queue)
             IN  /\ cmd.request_id \in DOMAIN event_handlers'
                 /\ event_handlers'[cmd.request_id] = cmd.callback
      ]_vars

\* C5 witness: a response has just invoked the callback registered under its
\* id while a later command's callback stays registered
C5_Witness ==
    /\ mon_pc = "update"
    /\ dispatched.what = "response"
    /\ dispatched.invoked = <<"bitrate">>
    /\ DOMAIN event_handlers # {}

\* C6: each end-file event with reason "eof" handled while the playback is
\* running and an auto-next callback was given invokes that callback exactly
\* once; an end-file event with another reason, and every other line, invokes
\* it not at all.
C6_OneAdvancePerEof ==
    [][ MonitorDispatch =>
          LET msg == Head(inbox)
              eof == msg.kind = "event" /\ msg.event = "end-file" /\ msg.reason = "eof"
          IN  /\ (eof /\ auto_next_callback) => dispatched'.advanced = 1
              /\ ~eof => dispatched'.advanced = 0
      ]_vars

\* C6 witness: an end-file event with reason "eof" has just been handled and
\* the auto-next callback was invoked
C6_Witness ==
    /\ mon_pc = "update"
    /\ dispatched.what = "end-file"
    /\ dispatched.advanced = 1
    /\ auto_next_callback

\* C7: in every reachable state the tracked volume is between 0 and 100.
C7_VolumeInRange == volume \in 0..100

\* the monitor thread handles a command response whose error is "success"
AnsweredWithSuccess == DispatchesResponse /\ Head(inbox).error = "success"

\* C8: the paused flag changes only when a command has been answered with
\* "success" (stop() and play() apart, which reset it).
C8_PausedOnlyAfterSuccess ==
    [][ is_paused' # is_paused =>
          \/ AnsweredWithSuccess
          \/ Stop
          \/ MonitorClosed
          \/ \E callback \in BOOLEAN :
               \E outcome \in {"ok", "no_mpv", "no_socket", "connect_error"} :
                 Play(callback, outcome)
      ]_vars

\* C9: the monitor thread, which receives the lines of mpv, writes none of the
\* playback state itself.
C9_MonitorWritesNothing ==
    [][ MonitorDispatch => UNCHANGED <<volume, playback_stats>> ]_vars

(* ---------------------------------------------------------------------- *)
(* Claims about the background tasks                                       *)
(* ---------------------------------------------------------------------- *)

\* C10: when a background task started by _run_in_background has completed,
\* with success or with failure, its outcome has been put on the event queue
\* and its completion handler has not been run on the worker thread.
C10_OutcomeQueuedHandlerOffWorker ==
    \A t \in 1..Len(threads) :
        threads[t].pc = "done" =>
            (threads[t].queued /\ threads[t].handler_thread # "worker")

(* ---------------------------------------------------------------------- *)
(* Claims about downloads                                                  *)
(* ---------------------------------------------------------------------- *)

\* C11: a download asked for a url that was already downloaded successfully
\* returns success without running the download tool again, whatever title
\* comes with the request.
C11_SecondDownloadFromCache ==
    last_download.again => (last_download.success /\ ~last_download.tool)

(* ---------------------------------------------------------------------- *)
(* Claims about the player of music_player.py                              *)
(* ---------------------------------------------------------------------- *)

\* C12: commands are written to the socket in the order they were submitted
\* and the thread that submits a command never waits on socket I/O.
\* In music_player.py the submitting thread is the one that writes; it is
\* never found waiting for the socket.
C12_SubmitterNeverWaits == caller.pc = "idle"

\* the listener thread is in its loops
InLoops == ipc_thread \in {"connect", "recv"}

\* C13, as first stated: once mpv has exited, or the listener's connection is
\* lost while mpv is running, the receive loop ends and is_playing() becomes
\* false (a new playback, or mpv's exit after the loss, apart).
C13_LoopEndsOnExitOrConnectionLoss ==
    /\ (InLoops /\ mp_process = "exited")
           ~> ((ipc_thread = "ended" /\ ~IsPlaying) \/ mp_process = "alive")
    /\ (ipc_thread = "recv" /\ conn = "closed" /\ mp_process = "alive")
           ~> ((ipc_thread = "ended" /\ ~IsPlaying) \/ mp_process # "alive")

\* C13: is_playing() is false whenever mpv is not running, and once mpv has
\* exited the receive loop ends (unless a new playback is started first, which
\* starts a new loop).  A connection lost while mpv keeps running does not end
\* the loop: the listener connects again.
C13_LoopEndsOnExit ==
    /\ [](mp_process # "alive" => ~IsPlaying)
    /\ (InLoops /\ mp_process = "exited") ~> (ipc_thread = "ended" \/ mp_process = "alive")
    /\ (ipc_thread = "recv" /\ conn = "closed" /\ mp_inbox = <<>>)
           ~> (ipc_thread # "recv" \/ conn # "closed")

\* C13 witness: mpv exited on its own during a playback (stop() was not called)
\* and the listener has left its loops
C13_Witness ==
    /\ mp_process = "exited" /\ mp_is_running
    /\ ipc_thread = "ended" /\ handled.what = "exit"

(* ---------------------------------------------------------------------- *)
(* Claims about stop(), play() and the playback state                      *)
(* ---------------------------------------------------------------------- *)

\* the state stop() of player.py leaves behind
Stopped ==
    /\ ~is_running /\ ipc_socket = "none" /\ process # "alive"
    /\ volume = DefaultVolume /\ ~is_paused
    /\ wire = <<>> /\ inbox = <<>>

\* C14: stop() is idempotent: every call leaves the player stopped with
\* nothing written to the socket, and a call made on a stopped player changes
\* nothing at all.
C14_StopIdempotent ==
    [][Stop => (Stopped' /\ (Stopped => UNCHANGED vars))]_vars

\* C14 witness: a playback that sent commands has been stopped
C14_Witness == Stopped /\ process = "exited" /\ request_id > 0

\* the listener is about to handle a property-change event for the volume
VolumeEventNext ==
    /\ ipc_thread = "recv" /\ mp_inbox # <<>>
    /\ Head(mp_inbox).event = "property-change"
    /\ Head(mp_inbox).name = "volume"

LoopStepRaises ==
    \/ \E raising \in 1..Len(event_queue) : LoopProcessEvents(raising)
    \/ CommandRaises
    \/ LoopUpdateUi(TRUE)

\* the task of thread t fails: it is called with the wrong number of
\* arguments, it raises, or its handler raises
BackgroundFails(t, outcome, handler_raises) ==
    \/ threads[t].nargs # Arity[threads[t].task_func]
    \/ outcome = "raises"
    \/ threads[t].callback # None /\ handler_raises

\* _cmd_play goes to _play_now: there is a current song and its play is not
\* left to an auto-download
PlaysNow == songs # <<>> /\ ~(auto_download /\ songs[1] \notin downloaded_songs)

\* C16: no error ends the main loop.  The loop is left only by the quit
\* command or a keyboard interrupt; an exception that reaches run() is posted
\* as an error message and the loop starts its next iteration; a play() that
\* fails and a background task that fails put an error event on the queue; an
\* unknown command is answered with an error message.
C16_ErrorsKeepLoopRunning ==
    [][/\ (app_is_running /\ ~app_is_running') => (CmdQuit \/ LoopInterrupt)
       /\ LoopStepRaises =>
            /\ UNCHANGED app_is_running
            /\ loop_pc' = "events"
            /\ ui_messages'[Len(ui_messages')] = Message("run", TRUE)
       /\ (PlaysNow /\ \E outcome \in PlayOutcomes \ {"ok"} : CmdPlay(outcome)) =>
            /\ UNCHANGED app_is_running
            /\ loop_pc' = "ui"
            /\ event_queue'[Len(event_queue')].type = EVENT_ERROR
       /\ (\A t \in 1..Len(threads), outcome \in {"ok", "failed", "raises"},
              handler_raises \in BOOLEAN :
              (AppBackgroundTask(t, outcome, handler_raises)
                 /\ BackgroundFails(t, outcome, handler_raises)) =>
                /\ UNCHANGED <<app_is_running, loop_pc>>
                /\ event_queue'[Len(event_queue')].type = EVENT_ERROR)
       /\ CmdUnknown =>
            /\ UNCHANGED app_is_running
            /\ ui_messages'[Len(ui_messages')] = Message("command", TRUE)]_vars

\* C16 witness: an exception reached run(), its message is posted, and the loop
\* has gone on to read the next command
C16_Witness ==
    /\ app_is_running /\ loop_pc = "command"
    /\ ui_messages # <<>>
    /\ ui_messages[Len(ui_messages)] = Message("run", TRUE)

\* C17: when mpv is missing, play() returns a failure with a message,
\* is_playing() is false afterwards, _play_now puts an error event and no
\* playback-started event on the queue, and the application keeps running.
C17_MissingMpvFailsPlay ==
    [][(PlaysNow /\ CmdPlay("no_mpv")) =>
         /\ ~last_play'.success /\ last_play'.message # ""
         /\ ~QueuedIsPlaying'
         /\ event_queue' = Append(event_queue, [type |-> EVENT_ERROR, success |-> FALSE])
         /\ UNCHANGED app_is_running
         /\ loop_pc' = "ui"]_vars

\* C17 witness: a play failed for want of mpv, and the loop has gone on: the
\* error event was handled and the next command is awaited
C17_Witness ==
    /\ last_play.message = "MPV not found" /\ ~QueuedIsPlaying
    /\ app_is_running /\ loop_pc = "command"
    /\ ui_messages # <<>>
    /\ ui_messages[Len(ui_messages)] = Message("event", TRUE)

\* C18: with auto-download on, once the download that _play_song started for
\* the song has ended, the play request left to it has been issued (from the
\* file, or from the url when the download failed).
C18_PlayIssuedAfterDownload ==
    ~(pending_play /\ \A t \in 1..Len(threads) : threads[t].pc = "done")

\* C19: every play request resets the playback state to its defaults: after
\* play() the volume read is 100, the player is not paused, and the playback
\* statistics hold no value reported for the previous playback.
C19_PlayResetsStatus ==
    [][(\E callback \in BOOLEAN, outcome \in PlayOutcomes : Play(callback, outcome)) =>
         /\ volume' = DefaultVolume /\ ~is_paused'
         /\ playback_stats'["volume"] = DefaultVolume]_vars

(* ---------------------------------------------------------------------- *)
(* Claims about the empty playlist                                         *)
(* ---------------------------------------------------------------------- *)

\* C20: on an empty playlist get_next_song_index and get_prev_song_index
\* return 0 without raising, with shuffle off and with shuffle on, and leave
\* the shuffle cursor (and the permutation) as they were.
C20_EmptyPlaylistReturnsZero ==
    [][(songs = <<>> /\ \E c \in CurrentIndices :
                          get_next_song_index(c) \/ get_prev_song_index(c)) =>
          /\ calls'[Len(calls')].ret = 0
          /\ calls'[Len(calls')].raised = ""
          /\ UNCHANGED <<shuffle_index, shuffle_history, shuffle_mode, songs>>]_vars

\* C20 witness: every song was deleted while shuffle was on and the cursor had
\* been moved; next and then prev were called on the empty playlist
C20_Witness ==
    /\ songs = <<>> /\ shuffle_mode
    /\ shuffle_history # <<>> /\ shuffle_index > 0
    /\ Len(calls) = 2
    /\ calls[1].op = "next" /\ calls[1].ret = 0 /\ calls[1].raised = ""
    /\ calls[2].op = "prev" /\ calls[2].ret = 0 /\ calls[2].raised = ""

(* ---------------------------------------------------------------------- *)
(* Claims about the permutation of an edited playlist                      *)
(* ---------------------------------------------------------------------- *)

\* C21: while shuffle is on, whatever add_song, delete_song and
\* toggle_shuffle calls were made, shuffle_history is a permutation of the
\* indices of the current playlist, and the accessors return without raising
\* an index that exists in the playlist.
C21_PermutationTracksEdits ==
    shuffle_mode =>
        /\ IsPermutation(shuffle_history, Len(songs))
        /\ (Len(calls) > 0 /\ Len(songs) > 0) =>
              (LastCall.raised = "" /\ LastCall.ret \in 0..(Len(songs) - 1))

(* ---------------------------------------------------------------------- *)
(* Claims about the listeners of successive playbacks                      *)
(* ---------------------------------------------------------------------- *)

\* C22: an event mpv writes is handled once: never by the listener of the
\* last play() and also by a listener that an earlier play() started.
C22_DispatchedOnce == Cardinality(dispatched_by) <= 1

(* ---------------------------------------------------------------------- *)
(* Claims about request ids and registrations                              *)
(* ---------------------------------------------------------------------- *)

\* the commands that await an answer: queued for the socket, or written and
\* not yet answered
Outstanding == command_queue \o wire

\* C23: no two commands that await an answer carry the same request_id,
\* whatever the interleaving of the threads that call _send_command.
C23_OutstandingIdsDistinct ==
    \A i, j \in 1..Len(Outstanding) :
        i # j => Outstanding[i].request_id # Outstanding[j].request_id

\* C24: a callback registered under a request id is eventually removed from
\* the registry, whether or not the answer arrives.
C24_RegistrationsEnd ==
    \A id \in 1..MaxRequestId :
        (id \in DOMAIN event_handlers) ~> (id \notin DOMAIN event_handlers)

\* C25: when stop() has to end a running mpv it delivers the quit command
\* before it terminates the process.
C25_QuitBeforeTerminate ==
    /\ received # <<>> => Head(received) = "quit"
    /\ mp_received # <<>> => Head(mp_received) = "quit"

(* ---------------------------------------------------------------------- *)
(* Claims about the listener of music_player.py                            *)
(* ---------------------------------------------------------------------- *)

\* a connection attempt of the listener, whatever its result
AnyAttempt == \E connected \in BOOLEAN : ListenerAttempt(connected)

\* C26: the delay stays between 0.1 s and 2 s; a failed attempt grows it by
\* the factor; only a successful attempt (or a new listener) sets it back;
\* an attempt that follows a closed connection comes after a wait.
C26_BackoffFollowsAttempts ==
    [][/\ reconnect_delay' \in MinDelay..MaxDelay
       /\ ListenerAttempt(FALSE) => reconnect_delay' = Grown(reconnect_delay)
       /\ reconnect_delay' < reconnect_delay => (ListenerAttempt(TRUE) \/ ListenerStart)
       /\ (AnyAttempt /\ reconnect.after = "closed") => reconnect.waited > 0]_vars

\* C27: a listener that ends because mpv is gone or the connection is lost,
\* with no end-file "eof" event read, calls no auto-next callback.
C27_NoAdvanceWithoutEof == handled.what = "exit" => handled.advanced = 0

(* ---------------------------------------------------------------------- *)
(* Claims about the receive loops                                          *)
(* ---------------------------------------------------------------------- *)

\* the texts of the messages written
Texts(messages) == [i \in 1..Len(messages) |-> Decoded(messages[i])]

IsPrefix(a, b) == Len(a) <= Len(b) /\ a = SubSeq(b, 1, Len(a))

\* C28: whatever the reads return, the lines forwarded are the messages
\* written, in order, each once; all of them once every byte has been read.
C28_ForwardedIsWritten ==
    /\ IsPrefix(forwarded, Texts(written))
    /\ unread = <<>> => forwarded = Texts(written)
    /\ IsPrefix(mp_forwarded, Texts(written))
    /\ mp_unread = <<>> => mp_forwarded = Texts(written)

(* ---------------------------------------------------------------------- *)
(* Claims about the advance to the next song                               *)
(* ---------------------------------------------------------------------- *)

\* C29: when the main loop has taken a playback-ended event off its queue,
\* the player was stopped, the current index is the next index of the one
\* before, and play() was called once, for the song at the new index.
C29_AdvancePlaysNext ==
    advance.consumed =>
        /\ advance.stopped
        /\ advance.to = PyMod(advance.from + 1, Len(songs))
        /\ advance.plays = <<advance.to>>

(* ---------------------------------------------------------------------- *)
(* Claims about property-change events                                     *)
(* ---------------------------------------------------------------------- *)

\* the field of PlaybackStatus each observed property is kept in
StatusField ==
    ("time-pos" :> "position") @@ ("duration" :> "duration") @@ ("pause" :> "paused")
        @@ ("volume" :> "volume") @@ ("media-title" :> "media_title")

\* the value _handle_event stores for a line
StoredValue(e) ==
    IF e.name = "pause" THEN e.data # 0
    ELSE IF e.name = "media-title" THEN e.text
    ELSE e.data

\* C30: handling a property-change line changes no field of the status but
\* the one kept for the property it names, which takes the line's value; a
\* line that names another property changes no field, and the listener goes
\* on receiving.
C30_PropertyChangeFrame ==
    [][(HandleRecv /\ Head(mp_inbox).event = "property-change") =>
         LET e == Head(mp_inbox)
             known == e.name \in DOMAIN StatusField
         IN  /\ \A f \in DOMAIN status :
                   (~known \/ f # StatusField[e.name]) => status'[f] = status[f]
             /\ (known /\ e.has_data) => status'[StatusField[e.name]] = StoredValue(e)
             /\ ipc_thread' = "recv"]_vars

\* C30 witness: lines for the title and the duration have set their fields,
\* and the line handled last names a property without a field
C30_Witness ==
    /\ seen = UnknownProperty
    /\ status.media_title = SomeTitle /\ status.duration = SomeDuration
    /\ status.position = 0

(* ---------------------------------------------------------------------- *)
(* Claims about malformed lines and failed play attempts                   *)
(* ---------------------------------------------------------------------- *)

\* C31: a line that is no protocol message changes no playback status and
\* raises no auto-next call, and the listener keeps its connection and stays
\* in its receive loop.
C31_MalformedDiscarded ==
    [][((MalformedRecv \/ MalformedRaises) /\ Head(mp_inbox).event = "malformed") =>
         /\ status' = status
         /\ handled'.advanced = 0
         /\ conn' = conn /\ ipc_thread' = "recv"]_vars

\* C32: a play() that leaves the player playing has found mpv's socket; one
\* that has not found it does not enter the playing state.
C32_PlayingOnlyWithEndpoint ==
    [][(\E callback \in BOOLEAN : DirectPlay(callback, "ok")) =>
         (socket_file' \/ ~(mp_is_running' /\ status'.playing))]_vars

(* ---------------------------------------------------------------------- *)
(* Claims about the commands of main.py                                    *)
(* ---------------------------------------------------------------------- *)

\* a request with invalid input: an add or an edit whose form fails the
\* validation, or a word that is no command
InvalidRequest ==
    \/ \E title \in FormTitles, url \in FormUrls, duration \in FormDurations :
          /\ validate_song_data(title, url, duration) # {}
          /\ CmdAddSong(title, url, duration) \/ CmdEditSong(title, url, duration)
    \/ CmdUnknownWord

\* C33: a request with invalid input posts an error and leaves the playlist,
\* the current index and the playback state as they were.
C33_InvalidInputChangesNothing ==
    [][InvalidRequest =>
         /\ UNCHANGED <<songs, app_current_index, index_kind, is_running, process>>
         /\ ui_messages' # <<>> /\ ui_messages'[Len(ui_messages')].error]_vars

(* ---------------------------------------------------------------------- *)
(* Claims about toggle_shuffle                                             *)
(* ---------------------------------------------------------------------- *)

C35_CurrentIndexValid ==
    /\ index_kind = "int"
    /\ IF songs = <<>> THEN app_current_index = 0
       ELSE app_current_index \in 0..(Len(songs) - 1)

\* C36: a playback-ended event handled after the user stopped the playback
\* (nothing plays when the event is taken from the queue) leaves the current
\* index where it is and starts no playback.
C36_StoppedPlaybackDoesNotAdvance ==
    [][(ConsumeEnded("ok") /\ ~is_running) =>
         UNCHANGED <<app_current_index, is_running, process>>]_vars

(* ---------------------------------------------------------------------- *)
(* Claims about the registration of callbacks                              *)
(* ---------------------------------------------------------------------- *)

\* C37: a response to a command that was written with a callback finds that
\* callback registered and invokes it, and no callback is registered under a
\* request id whose response has been processed.
C37_RegisteredBeforeResponse ==
    /\ [][(RegMonitorDispatch /\ Head(inbox).kind = "response"
             /\ Head(inbox).request_id \in DOMAIN sent_with
             /\ sent_with[Head(inbox).request_id] # None) =>
            dispatched'.invoked = <<sent_with[Head(inbox).request_id]>>]_vars
    /\ [](answered \cap DOMAIN event_handlers = {})

(* ---------------------------------------------------------------------- *)
(* Claims about the completion of background tasks                         *)
(* ---------------------------------------------------------------------- *)

\* C38: a background task a command started, once its thread has ended, has
\* had its completion handler run with the result (for the download command:
\* the handler that queues the download-completed event).
C38_HandlerRanWhenTaskEnded ==
    \A t \in 1..Len(threads) :
        threads[t].pc = "done" => threads[t].handler_thread # None

(* ---------------------------------------------------------------------- *)
(* Claims about commands given to a player that is not playing             *)
(* ---------------------------------------------------------------------- *)

\* C39: while is_playing() is false, pause, seek, set_volume and
\* adjust_volume queue no command and leave the paused flag and the volume
\* as they were.
C39_NotPlayingRefuses ==
    [][(~QueuedIsPlaying /\ (\/ Pause \/ Seek
                             \/ \E v \in VolumeArgs : SetVolume(v)
                             \/ \E d \in VolumeDeltas : AdjustVolume(d))) =>
         UNCHANGED <<command_queue, request_id, is_paused, volume>>]_vars

\* C40: when play() returns a failure, the renderer process it spawned is
\* not left running and no socket of the attempt is left behind.
C40_FailedPlayLeavesNothing ==
    [][(\E callback \in BOOLEAN, outcome \in {"no_mpv", "no_socket", "connect_error"} :
          Play(callback, outcome)) =>
         (process' # "alive" /\ ipc_socket' = "none")]_vars

SpecTraverse == Init /\ [][TraverseNext]_vars

SpecPlaylist == Init /\ [][PlaylistNext]_vars

Spec == SpecPlaylist

====
